---- MODULE Spec2Model ----
(***************************************************************************)
(* Transactional core of the agro back office: the inventory ledger        *)
(* (stocks), the stock management operations (adjust, transfer), order     *)
(* processing and the approvisionnement workflow, run as concurrent        *)
(* requests against one relational store with read-committed isolation     *)
(* and row-level write locks.                                              *)
(*                                                                         *)
(* Each request is a process; one step is one call to the store (or the    *)
(* local computation up to the next call).  A row written inside           *)
(* prisma.$transaction is invisible to the other requests until the        *)
(* transaction commits, and is write-locked until it commits or rolls      *)
(* back.  Numbers are exact (quantities and prices are small integers).    *)
(***************************************************************************)
EXTENDS Integers, Sequences, FiniteSets, TLC

VARIABLES
    stocks,            \* table stocks: sequence of rows, stock_id = index
    approvisionnements,\* table approvisionnements: id -> row
    orders,            \* table orders (committed rows, in commit order)
    order_items,       \* table order_items
    deliveries,        \* table deliveries
    payments,          \* table payments
    transaction_logs,  \* table transaction_logs (the audit log)
    notifications,     \* table notifications
    req,               \* the requests: inputs, position, locals, response
    expected,          \* history: (product, warehouse) -> opening quantity
                       \* plus the signed deltas of the committed requests
    rateLimitMap,      \* the rate limiter's map: ip -> {count, resetTime}
    now,               \* the clock Date.now() reads
    window             \* history: ip -> the window its admitted requests
                       \* are in: start and number admitted since

vars == <<stocks, approvisionnements, orders, order_items, deliveries,
          payments, transaction_logs, notifications, req, expected,
          rateLimitMap, now, window>>

----------------------------------------------------------------------------
(* Bounds of the model *)

MaxReq == 2          \* requests in flight together
SeqLen == 3          \* requests of a sequential run
MaxQty == 2          \* largest quantity a request asks for
InitQty == 2         \* opening quantity of product pA in warehouse W1
RateLimit == 3       \* requests the rate limiter admits per window
WindowMs == 2        \* length of the rate limiter's window, in clock ticks
MaxNow == 6          \* last tick of the clock

Requests == 1..MaxReq
Products == {"pA", "pB"}
Warehouses == {"W1", "W2"}
Appros == {"A1"}
Ips == {"ip1", "ip2"}
Roles == {"admin", "business_developer", "stock_manager", "client", "supplier"}

----------------------------------------------------------------------------
(* The store *)

\* A stock row.  cur is the committed version (meaningful when exists), unc
\* the version written by the transaction holding the row lock (lock # 0).
\* A row created inside a transaction has exists = FALSE until the commit.
StockVal(q, p, t, a) ==
    [quantity |-> q, unit_price |-> p, last_updated |-> t, approvisionnement_id |-> a]

StockRow(p, w, v) ==
    [product_id |-> p, warehouse_id |-> w, exists |-> TRUE, cur |-> v,
     lock |-> 0, unc |-> v]

\* reader 0 reads outside any transaction
Visible(reader, row) == row.exists \/ (reader # 0 /\ row.lock = reader)

View(reader, row) == IF reader # 0 /\ row.lock = reader THEN row.unc ELSE row.cur

\* tx.stocks.findFirst({where: {product_id, warehouse_id}}): the stock_id of
\* the first matching row the reader can see, 0 when there is none
FindFirst(reader, p, w) ==
    LET hits == {id \in 1..Len(stocks) :
                    /\ stocks[id].product_id = p
                    /\ stocks[id].warehouse_id = w
                    /\ Visible(reader, stocks[id])}
    IN IF hits = {} THEN 0 ELSE CHOOSE id \in hits : \A j \in hits : id <= j

\* a row can be written by r when no other transaction holds its lock
CanWrite(r, id) == stocks[id].lock \in {0, r}

\* tx.stocks.update({where: {stock_id}, data}) inside the transaction of r
WriteRow(r, id, v) ==
    [stocks EXCEPT ![id] = [@ EXCEPT !.lock = r, !.unc = v]]

\* tx.stocks.create inside the transaction of r
CreateRow(r, p, w, v) ==
    Append(stocks, [product_id |-> p, warehouse_id |-> w, exists |-> FALSE,
                    cur |-> v, lock |-> r, unc |-> v])

CommitRow(r, row) ==
    IF row.lock = r
    THEN [row EXCEPT !.exists = TRUE, !.cur = row.unc, !.lock = 0]
    ELSE row

\* a rollback that keeps what the transaction wrote to the row
RollbackRowKeepsWrite(r, row) ==
    IF row.lock = r
    THEN [row EXCEPT !.exists = TRUE, !.cur = row.unc, !.lock = 0]
    ELSE row

RollbackRow(r, row) ==
    IF row.lock = r
    THEN [row EXCEPT !.lock = 0, !.unc = row.cur]
    ELSE row

CommitStocks(r) == [id \in 1..Len(stocks) |-> CommitRow(r, stocks[id])]

RollbackStocks(r) == [id \in 1..Len(stocks) |-> RollbackRow(r, stocks[id])]

\* the committed ledger: what a reader outside any transaction sees
Committed(id) == stocks[id].cur

Live == {id \in 1..Len(stocks) : stocks[id].exists}

----------------------------------------------------------------------------
(* Requests *)

\* the caller of request r, as the x-user-data header names it: user.id
UserId(r) == "u" \o ToString(r)

NoStock == [stock_id |-> 0, quantity |-> 0, unit_price |-> 0]

\* the fields of an approvisionnement a request can see change
NoAppro == [status |-> "none", stock_manager_id |-> "none"]

EmptyTx == [orders |-> <<>>, order_items |-> <<>>, deliveries |-> <<>>,
            payments |-> <<>>, logs |-> <<>>]

NoResp ==
    [status |-> 0, code |-> "", error |-> "", product |-> "",
     is_low_stock |-> FALSE]

Resp(s, c, e) ==
    [status |-> s, code |-> c, error |-> e, product |-> "",
     is_low_stock |-> FALSE]

IdleReq ==
    [op |-> "none", variant |-> 1, pc |-> "idle", at |-> "none", role |-> "none",
     product_id |-> "none", warehouse_id |-> "none",
     from_warehouse_id |-> "none", to_warehouse_id |-> "none",
     quantity |-> 0, threshold |-> 0, items |-> <<>>,
     delivery_option |-> FALSE,
     payment_method |-> "none", approvisionnement_id |-> "none",
     currentStock |-> NoStock, sourceStock |-> NoStock,
     destinationStock |-> NoStock, newQuantity |-> 0, i |-> 0,
     totalAmount |-> 0, existingStock |-> NoStock,
     approvisionnement |-> NoAppro, committed |-> FALSE,
     tx |-> EmptyTx, resp |-> NoResp, ip |-> "none"]

Snapshot(reader, id) ==
    [stock_id |-> id,
     quantity |-> View(reader, stocks[id]).quantity,
     unit_price |-> View(reader, stocks[id]).unit_price]

\* the handlers of the stock, order and workflow endpoints are not wrapped
\* by createCrudHandler: their steps leave the rate limiter alone
Set(r, rec) ==
    /\ req' = [req EXCEPT ![r] = rec]
    /\ UNCHANGED <<rateLimitMap, now, window>>

\* res.status(s).json(...): the request is over; only the operation, the
\* handler that served it, the position it ended at, whether its transaction
\* committed, and the response are kept
Finish(rec, resp) ==
    [IdleReq EXCEPT !.op = rec.op, !.variant = rec.variant, !.pc = "done",
                    !.at = rec.pc, !.committed = rec.committed, !.resp = resp]

Keys == Products \X Warehouses

----------------------------------------------------------------------------
(* prisma.$transaction: commit when the callback returns, roll back when it
   throws *)

CommitAppro(r, row) ==
    IF row.lock = r
    THEN [row EXCEPT !.status = row.unc.status,
                     !.stock_manager_id = row.unc.stock_manager_id,
                     !.lock = 0]
    ELSE row

\* a rollback that keeps the status the transaction wrote
RollbackApproKeepsStatus(r, row) ==
    IF row.lock = r
    THEN [row EXCEPT !.status = row.unc.status,
                     !.stock_manager_id = row.unc.stock_manager_id,
                     !.lock = 0]
    ELSE row

RollbackAppro(r, row) ==
    IF row.lock = r
    THEN [row EXCEPT !.lock = 0,
                     !.unc = [status |-> row.status,
                              stock_manager_id |-> row.stock_manager_id]]
    ELSE row

\* the callback returned: every row the transaction wrote becomes visible.
\* delta is the signed change of each ledger entry the request asked for.
Commit(r, delta) ==
    /\ stocks' = CommitStocks(r)
    /\ approvisionnements' =
           [a \in Appros |-> CommitAppro(r, approvisionnements[a])]
    /\ orders' = orders \o req[r].tx.orders
    /\ order_items' = order_items \o req[r].tx.order_items
    /\ deliveries' = deliveries \o req[r].tx.deliveries
    /\ payments' = payments \o req[r].tx.payments
    /\ transaction_logs' = transaction_logs \o req[r].tx.logs
    /\ expected' = [k \in Keys |-> expected[k] + delta[k]]

\* the callback threw: nothing the transaction wrote is kept
Rollback(r) ==
    /\ stocks' = RollbackStocks(r)
    /\ approvisionnements' =
           [a \in Appros |-> RollbackAppro(r, approvisionnements[a])]
    /\ UNCHANGED <<orders, order_items, deliveries, payments, transaction_logs,
                   expected>>

\* the error thrown inside the transaction reaches the catch, which answers
Abort(r, resp) ==
    /\ Rollback(r)
    /\ Set(r, Finish(req[r], resp))
    /\ UNCHANGED notifications

\* a step that touches no table
StoreUnchanged ==
    UNCHANGED <<stocks, approvisionnements, orders, order_items, deliveries,
                payments, transaction_logs, notifications, expected>>

----------------------------------------------------------------------------
(* Stock management: handler and handleStockAdjustment *)

StockManagementAllowed(role) == role = "stock_manager" \/ role = "admin"

Forbidden == Resp(403, "INSUFFICIENT_PERMISSIONS", "forbidden")

\* handler (role check) and the entry of handleStockAdjustment; every request
\* carries product_id, warehouse_id and quantity
StartAdjustIn(r, products, warehouses, deltas) ==
    /\ req[r].pc = "idle"
    /\ \E role \in Roles, p \in products, w \in warehouses, d \in deltas :
          LET rec == [IdleReq EXCEPT !.op = "adjust", !.role = role, !.product_id = p,
                                     !.warehouse_id = w, !.quantity = d]
          IN IF StockManagementAllowed(role)
             THEN Set(r, [rec EXCEPT !.pc = "adjust_find"])
             ELSE Set(r, Finish(rec, Forbidden))
    /\ StoreUnchanged

\* variant 2 (the second stock management handler): stockAdjustmentSchema
StockAdjustmentSchema(body) ==
    body.action \in {"add", "remove"} /\ body.quantity > 0

\* variant 2, handler: the role check, then the dispatch on action = 'adjust'
StartAdjustV2In(r, products, warehouses, quantities) ==
    /\ req[r].pc = "idle"
    /\ \E role \in Roles, p \in products, w \in warehouses, q \in quantities :
          LET rec == [IdleReq EXCEPT !.op = "adjust", !.role = role, !.variant = 2,
                                     !.product_id = p, !.warehouse_id = w,
                                     !.quantity = q]
          IN IF StockManagementAllowed(role)
             THEN Set(r, [rec EXCEPT !.pc = "adjust_parse"])
             ELSE Set(r, Finish(rec, Forbidden))
    /\ StoreUnchanged

\* variant 2, handleStockAdjustment: stockAdjustmentSchema.parse of
\* {...req.body, ...data}, the body with the action the handler dispatched on;
\* the ZodError is answered by the catch of the handler.  The transaction
\* starts after the parse.
AdjustParse(r) ==
    /\ req[r].pc = "adjust_parse"
    /\ LET body == [action |-> "adjust", product_id |-> req[r].product_id,
                    warehouse_id |-> req[r].warehouse_id,
                    quantity |-> req[r].quantity]
       IN IF StockAdjustmentSchema(body)
          THEN Set(r, [req[r] EXCEPT !.pc = "adjust_find"])
          ELSE Set(r, Finish(req[r], Resp(400, "VALIDATION_ERROR",
                                          "Invalid input data")))
    /\ StoreUnchanged

AdjustFailed(msg) == Resp(500, "STOCK_ADJUSTMENT_FAILED", msg)

\* findFirst, newQuantity and the two throws
AdjustFind(r) ==
    /\ req[r].pc = "adjust_find"
    /\ LET id == FindFirst(r, req[r].product_id, req[r].warehouse_id)
       IN IF id = 0
          THEN Abort(r, AdjustFailed("Stock record not found for this product and warehouse"))
          ELSE LET currentStock == Snapshot(r, id)
                   newQuantity == currentStock.quantity + req[r].quantity
               IN IF newQuantity < 0
                  THEN Abort(r, AdjustFailed("Stock adjustment would result in negative quantity"))
                  ELSE /\ Set(r, [req[r] EXCEPT !.pc = "adjust_update",
                                               !.currentStock = currentStock,
                                               !.newQuantity = newQuantity])
                       /\ StoreUnchanged

\* tx.stocks.update: quantity and last_updated
AdjustUpdate(r) ==
    /\ req[r].pc = "adjust_update"
    /\ LET id == req[r].currentStock.stock_id
       IN /\ CanWrite(r, id)
          /\ stocks' = WriteRow(r, id,
                 [View(r, stocks[id]) EXCEPT !.quantity = req[r].newQuantity,
                                             !.last_updated = @ + 1])
    /\ Set(r, [req[r] EXCEPT !.pc = "adjust_log"])
    /\ UNCHANGED <<approvisionnements, orders, order_items, deliveries,
                   payments, transaction_logs, notifications, expected>>

AdjustmentLog(r) ==
    [entity_type |-> "stocks", entity_id |-> req[r].currentStock.stock_id,
     action |-> "UPDATE", user_id |-> UserId(r),
     details |-> [action |-> "stock_adjustment",
                  product_id |-> req[r].product_id,
                  warehouse_id |-> req[r].warehouse_id,
                  previous_quantity |-> req[r].currentStock.quantity,
                  adjustment |-> req[r].quantity,
                  new_quantity |-> req[r].newQuantity]]

\* tx.transaction_logs.create
AdjustLog(r) ==
    /\ req[r].pc = "adjust_log"
    /\ Set(r, [req[r] EXCEPT !.pc = "adjust_commit",
                            !.tx.logs = Append(@, AdjustmentLog(r))])
    /\ StoreUnchanged

AdjustDelta(rec) ==
    [k \in Keys |-> IF k = <<rec.product_id, rec.warehouse_id>>
                    THEN rec.quantity ELSE 0]

\* the callback returns, the transaction commits, 200
AdjustCommit(r) ==
    /\ req[r].pc = "adjust_commit"
    /\ Commit(r, AdjustDelta(req[r]))
    /\ Set(r, Finish([req[r] EXCEPT !.committed = TRUE],
                     Resp(200, "OK", "Stock adjusted successfully")))
    /\ UNCHANGED notifications

----------------------------------------------------------------------------
(* Stock management: handleStockTransfer.  Two handlers serve transfer:
   variant 1 is pages/api/stocks/management/index.ts, variant 2 the second
   stock management handler.  They differ in the input checks, in the
   last_updated of a created entry, in the audit entry, and in the
   notification variant 2 sends after the commit. *)

\* warehouses.name of the warehouse row
WarehouseName(w) == "Depot " \o w

\* handler (role check), then the required fields (!data.quantity rejects 0)
\* and the equal-warehouses check
StartTransferIn(r, products, froms, tos, quantities) ==
    /\ req[r].pc = "idle"
    /\ \E role \in Roles, p \in products, f \in froms, t \in tos,
          q \in quantities :
          LET rec == [IdleReq EXCEPT !.op = "transfer", !.role = role, !.product_id = p,
                                     !.from_warehouse_id = f,
                                     !.to_warehouse_id = t, !.quantity = q]
          IN IF ~StockManagementAllowed(role)
             THEN Set(r, Finish(rec, Forbidden))
             ELSE IF q = 0
             THEN Set(r, Finish(rec, Resp(400, "MISSING_REQUIRED_FIELDS",
                                          "quantity is required")))
             ELSE IF f = t
             THEN Set(r, Finish(rec, Resp(400, "INVALID_TRANSFER",
                    "Source and destination warehouses must be different")))
             ELSE Set(r, [rec EXCEPT !.pc = "transfer_source"])
    /\ StoreUnchanged

\* variant 2: handler (role check), then stockTransferSchema.parse, whose
\* ZodError the handler's catch answers with 400
StartTransferV2In(r, products, froms, tos, quantities) ==
    /\ req[r].pc = "idle"
    /\ \E role \in Roles, p \in products, f \in froms, t \in tos,
          q \in quantities :
          LET rec == [IdleReq EXCEPT !.op = "transfer", !.role = role, !.variant = 2,
                                     !.product_id = p,
                                     !.from_warehouse_id = f,
                                     !.to_warehouse_id = t, !.quantity = q]
          IN IF ~StockManagementAllowed(role)
             THEN Set(r, Finish(rec, Forbidden))
             ELSE IF ~(q > 0)
             THEN Set(r, Finish(rec, Resp(400, "VALIDATION_ERROR",
                                          "Invalid input data")))
             ELSE Set(r, [rec EXCEPT !.pc = "transfer_source"])
    /\ StoreUnchanged

TransferFailedCode(variant) ==
    IF variant = 1 THEN "STOCK_TRANSFER_FAILED" ELSE "TRANSFER_FAILED"

TransferFailed(r, msg) == Resp(500, TransferFailedCode(req[r].variant), msg)

\* findFirst of the source entry and the two throws
TransferSource(r) ==
    /\ req[r].pc = "transfer_source"
    /\ LET id == FindFirst(r, req[r].product_id, req[r].from_warehouse_id)
       IN IF id = 0
          THEN Abort(r, TransferFailed(r, "Source stock not found"))
          ELSE IF Snapshot(r, id).quantity < req[r].quantity
          THEN Abort(r, TransferFailed(r, "Insufficient stock in source warehouse"))
          ELSE /\ Set(r, [req[r] EXCEPT !.pc = "transfer_dest",
                                       !.sourceStock = Snapshot(r, id)])
               /\ StoreUnchanged

\* findFirst of the destination entry
TransferDest(r) ==
    /\ req[r].pc = "transfer_dest"
    /\ LET id == FindFirst(r, req[r].product_id, req[r].to_warehouse_id)
       IN Set(r, [req[r] EXCEPT !.pc = "transfer_dest_write",
                               !.destinationStock =
                                   IF id = 0 THEN NoStock ELSE Snapshot(r, id)])
    /\ StoreUnchanged

\* tx.stocks.create of the destination entry, or tx.stocks.update of it
TransferDestWrite(r) ==
    /\ req[r].pc = "transfer_dest_write"
    /\ LET id == req[r].destinationStock.stock_id
       IN IF id = 0
          THEN stocks' = CreateRow(r, req[r].product_id, req[r].to_warehouse_id,
                   StockVal(req[r].quantity, req[r].sourceStock.unit_price,
                            IF req[r].variant = 1 THEN 1 ELSE 0, "none"))
          ELSE /\ CanWrite(r, id)
               /\ stocks' = WriteRow(r, id,
                      [View(r, stocks[id]) EXCEPT
                          !.quantity = req[r].destinationStock.quantity
                                         + req[r].quantity,
                          !.last_updated = @ + 1])
    /\ Set(r, [req[r] EXCEPT !.pc = "transfer_source_write"])
    /\ UNCHANGED <<approvisionnements, orders, order_items, deliveries,
                   payments, transaction_logs, notifications, expected>>

\* tx.stocks.update of the source entry
TransferSourceWrite(r) ==
    /\ req[r].pc = "transfer_source_write"
    /\ LET id == req[r].sourceStock.stock_id
       IN /\ CanWrite(r, id)
          /\ stocks' = WriteRow(r, id,
                 [View(r, stocks[id]) EXCEPT
                     !.quantity = req[r].sourceStock.quantity - req[r].quantity,
                     !.last_updated = @ + 1])
    /\ Set(r, [req[r] EXCEPT !.pc = "transfer_log"])
    /\ UNCHANGED <<approvisionnements, orders, order_items, deliveries,
                   payments, transaction_logs, notifications, expected>>

TransferLogEntry(r) ==
    [entity_type |-> "stocks", entity_id |-> req[r].sourceStock.stock_id,
     action |-> "UPDATE", user_id |-> UserId(r),
     details |->
         IF req[r].variant = 1
         THEN [action |-> "stock_transfer",
               product_id |-> req[r].product_id,
               from_warehouse_id |-> req[r].from_warehouse_id,
               to_warehouse_id |-> req[r].to_warehouse_id,
               quantity_transferred |-> req[r].quantity]
         ELSE [action |-> "stock_transfer",
               from_warehouse |-> WarehouseName(req[r].from_warehouse_id),
               to_warehouse |-> WarehouseName(req[r].to_warehouse_id),
               quantity_transferred |-> req[r].quantity]]

\* tx.transaction_logs.create
TransferLog(r) ==
    /\ req[r].pc = "transfer_log"
    /\ Set(r, [req[r] EXCEPT !.pc = "transfer_commit",
                            !.tx.logs = Append(@, TransferLogEntry(r))])
    /\ StoreUnchanged

TransferDelta(rec) ==
    [k \in Keys |->
        (IF k = <<rec.product_id, rec.to_warehouse_id>> THEN rec.quantity ELSE 0)
      - (IF k = <<rec.product_id, rec.from_warehouse_id>> THEN rec.quantity ELSE 0)]

TransferDone == Resp(200, "OK", "Stock transfer completed successfully")

\* the callback returns and the transaction commits; variant 1 answers 200
TransferCommit(r) ==
    /\ req[r].pc = "transfer_commit"
    /\ Commit(r, TransferDelta(req[r]))
    /\ Set(r, IF req[r].variant = 1
              THEN Finish([req[r] EXCEPT !.committed = TRUE], TransferDone)
              ELSE [req[r] EXCEPT !.pc = "transfer_notify",
                                  !.committed = TRUE, !.tx = EmptyTx])
    /\ UNCHANGED notifications

\* variant 2: prisma.notifications.create after the commit, then 200
TransferNotify(r) ==
    /\ req[r].pc = "transfer_notify"
    /\ notifications' = Append(notifications,
                               [user_id |-> UserId(r), about |-> "stock_transfer",
                                by |-> r])
    /\ Set(r, Finish(req[r], TransferDone))
    /\ UNCHANGED <<stocks, approvisionnements, orders, order_items, deliveries,
                   payments, transaction_logs, expected>>

----------------------------------------------------------------------------
(* Stock management: handleStockAlert, which runs outside any transaction *)

\* prisma.stocks.findFirst({where: {product_id}}): the first entry of the
\* product, whatever its warehouse; 0 when there is none
FindFirstOfProduct(p) ==
    LET hits == {id \in Live : stocks[id].product_id = p}
    IN IF hits = {} THEN 0 ELSE CHOOSE id \in hits : \A j \in hits : id <= j

\* handler: stockManagementSchema.parse (threshold is positive), then the
\* role check; every request carries product_id and threshold
StartAlertIn(r, products, thresholds) ==
    /\ req[r].pc = "idle"
    /\ \E role \in Roles, p \in products, th \in thresholds :
          LET rec == [IdleReq EXCEPT !.op = "alert", !.role = role, !.product_id = p,
                                     !.threshold = th]
          IN IF ~(th > 0)
             THEN Set(r, Finish(rec, Resp(400, "VALIDATION_ERROR",
                                          "Invalid input data")))
             ELSE IF ~StockManagementAllowed(role)
             THEN Set(r, Finish(rec, Forbidden))
             ELSE Set(r, [rec EXCEPT !.pc = "alert_find"])
    /\ StoreUnchanged

\* a comparison that leaves out the threshold itself
AlertLowStrict(quantity, threshold) == quantity < threshold

\* isLowStock = Number(currentStock.quantity) <= data.threshold
AlertLow(quantity, threshold) == quantity <= threshold

\* the 200 of handleStockAlert
AlertDone(isLowStock) ==
    [Resp(200, "OK", "Stock alert processed") EXCEPT
        !.is_low_stock = isLowStock]

\* findFirst, the 404, and isLowStock
AlertFind(r) ==
    /\ req[r].pc = "alert_find"
    /\ LET id == FindFirstOfProduct(req[r].product_id)
       IN IF id = 0
          THEN Set(r, Finish(req[r], Resp(404, "STOCK_NOT_FOUND",
                                          "Stock not found for this product")))
          ELSE IF AlertLow(Snapshot(0, id).quantity, req[r].threshold)
          THEN Set(r, [req[r] EXCEPT !.pc = "alert_notify",
                                     !.currentStock = Snapshot(0, id)])
          ELSE Set(r, Finish(req[r], AlertDone(FALSE)))
    /\ StoreUnchanged

\* prisma.notifications.create for the caller
AlertNotify(r) ==
    /\ req[r].pc = "alert_notify"
    /\ notifications' = Append(notifications,
                               [user_id |-> UserId(r),
                                about |-> "low_stock_alert", by |-> r])
    /\ Set(r, [req[r] EXCEPT !.pc = "alert_log"])
    /\ UNCHANGED <<stocks, approvisionnements, orders, order_items, deliveries,
                   payments, transaction_logs, expected>>

AlertLogEntry(r) ==
    [entity_type |-> "stocks", entity_id |-> req[r].currentStock.stock_id,
     action |-> "CREATE", user_id |-> UserId(r),
     details |-> [action |-> "low_stock_alert",
                  product_id |-> req[r].product_id,
                  current_quantity |-> req[r].currentStock.quantity,
                  threshold |-> req[r].threshold,
                  alert_triggered |-> TRUE]]

\* prisma.transaction_logs.create, then 200
AlertLog(r) ==
    /\ req[r].pc = "alert_log"
    /\ transaction_logs' = Append(transaction_logs, AlertLogEntry(r))
    /\ Set(r, Finish(req[r], AlertDone(TRUE)))
    /\ UNCHANGED <<stocks, approvisionnements, orders, order_items, deliveries,
                   payments, notifications, expected>>

\* a call to the store fails: the catch answers 500; what was written stays
AlertFail(r) ==
    /\ req[r].pc \in {"alert_find", "alert_notify", "alert_log"}
    /\ Set(r, Finish(req[r], Resp(500, "ALERT_PROCESSING_FAILED",
                                  "store error")))
    /\ StoreUnchanged

----------------------------------------------------------------------------
(* Order processing: handler and validateStockAvailability *)

OrderAllowed(role) == role = "client" \/ role = "admin"

Item(p, q, u) == [product_id |-> p, quantity |-> q, unit_price |-> u]

\* products.name of the product row
ProductName(p) == IF p = "pA" THEN "Product A" ELSE "Product B"

ClientId == "client-1"

InternalError(msg, name) ==
    [status |-> 500, code |-> "INTERNAL_SERVER_ERROR", error |-> msg,
     product |-> name, is_low_stock |-> FALSE]

\* handler: schema (every request here satisfies it) and role check
StartOrderIn(r, warehouses, itemLists, options, methods) ==
    /\ req[r].pc = "idle"
    /\ \E role \in Roles, w \in warehouses, its \in itemLists,
          d \in options, m \in methods :
          LET rec == [IdleReq EXCEPT !.op = "process_order", !.role = role, !.warehouse_id = w,
                                     !.items = its, !.delivery_option = d,
                                     !.payment_method = m]
          IN IF OrderAllowed(role)
             THEN Set(r, [rec EXCEPT !.pc = "order_validate", !.i = 1])
             ELSE Set(r, Finish(rec, Forbidden))
    /\ StoreUnchanged

\* a total that stops after the first item
TotalAmountFirstItem(items) ==
    IF items = <<>> THEN 0
    ELSE Head(items).quantity * Head(items).unit_price

\* items.reduce((sum, item) => sum + item.quantity * item.unit_price, 0)
RECURSIVE TotalAmount(_)
TotalAmount(items) ==
    IF items = <<>> THEN 0
    ELSE Head(items).quantity * Head(items).unit_price + TotalAmount(Tail(items))

\* the message of the error thrown when the validation fails; variant 2 (the
\* second process_order handler) words it "Insufficient stock for <name>.
\* Available: ..., Requested: ..."
InsufficientStock(variant) ==
    IF variant = 1 THEN "Insufficient stock for product"
                   ELSE "Insufficient stock for"

\* a validation that looks at the first item only
OrderValidateFirstItem(r) ==
    /\ req[r].pc = "order_validate"
    /\ LET item == req[r].items[1]
           id == FindFirst(r, item.product_id, req[r].warehouse_id)
       IN IF id = 0
          THEN Abort(r, InternalError("Insufficient stock for product",
                                      "Product ID: " \o item.product_id))
          ELSE IF Snapshot(r, id).quantity < item.quantity
          THEN Abort(r, InternalError("Insufficient stock for product",
                                      ProductName(item.product_id)))
          ELSE /\ Set(r, [req[r] EXCEPT
                             !.pc = "order_create",
                             !.totalAmount = TotalAmount(req[r].items)])
               /\ StoreUnchanged

\* validateStockAvailability, one findFirst per item; the first item without
\* an entry or with too little on hand makes the callback throw
OrderValidate(r) ==
    /\ req[r].pc = "order_validate"
    /\ LET item == req[r].items[req[r].i]
           id == FindFirst(r, item.product_id, req[r].warehouse_id)
       IN IF id = 0
          THEN Abort(r, InternalError(InsufficientStock(req[r].variant),
                                      "Product ID: " \o item.product_id))
          ELSE IF Snapshot(r, id).quantity < item.quantity
          THEN Abort(r, InternalError(InsufficientStock(req[r].variant),
                                      ProductName(item.product_id)))
          ELSE /\ Set(r, IF req[r].i < Len(req[r].items)
                         THEN [req[r] EXCEPT !.i = @ + 1]
                         ELSE [req[r] EXCEPT
                                  !.pc = "order_create",
                                  !.totalAmount = TotalAmount(req[r].items)])
               /\ StoreUnchanged

\* tx.orders.create; the order of request r has order_id r
OrderCreate(r) ==
    /\ req[r].pc = "order_create"
    /\ Set(r, [req[r] EXCEPT
                 !.pc = IF req[r].variant = 1 THEN "order_item"
                                              ELSE "order_item_v2",
                 !.i = 1,
                 !.tx.orders = Append(@,
                     [order_id |-> r, client_id |-> ClientId,
                      warehouse_id |-> req[r].warehouse_id,
                      total_amount |-> req[r].totalAmount,
                      status |-> "pending",
                      delivery_option |-> req[r].delivery_option,
                      payment_method |-> req[r].payment_method])])
    /\ StoreUnchanged

\* tx.order_items.create for item i
OrderItemCreate(r) ==
    /\ req[r].pc = "order_item"
    /\ LET item == req[r].items[req[r].i]
       IN Set(r, [req[r] EXCEPT
                    !.pc = "order_stock_find",
                    !.tx.order_items = Append(@,
                        [order_id |-> r, product_id |-> item.product_id,
                         quantity |-> item.quantity,
                         unit_price |-> item.unit_price])])
    /\ StoreUnchanged

\* after the last item: the delivery when asked for, else the payment
AfterItem(rec) ==
    IF rec.i < Len(rec.items)
    THEN [rec EXCEPT !.pc = "order_item", !.i = @ + 1]
    ELSE [rec EXCEPT !.pc = IF rec.delivery_option THEN "order_delivery"
                                                   ELSE "order_payment"]

\* tx.stocks.findFirst({select: {stock_id}}) for item i
OrderStockFind(r) ==
    /\ req[r].pc = "order_stock_find"
    /\ LET item == req[r].items[req[r].i]
           id == FindFirst(r, item.product_id, req[r].warehouse_id)
       IN Set(r, IF id = 0
                 THEN AfterItem(req[r])
                 ELSE [req[r] EXCEPT !.pc = "order_stock_update",
                                     !.currentStock.stock_id = id])
    /\ StoreUnchanged

\* tx.stocks.update({data: {quantity: {decrement}, last_updated}}): the
\* decrement applies to the row as it is when the update gets the row lock
OrderStockUpdate(r) ==
    /\ req[r].pc = "order_stock_update"
    /\ LET id == req[r].currentStock.stock_id
           item == req[r].items[req[r].i]
       IN /\ CanWrite(r, id)
          /\ stocks' = WriteRow(r, id,
                 [View(r, stocks[id]) EXCEPT !.quantity = @ - item.quantity,
                                             !.last_updated = @ + 1])
    /\ Set(r, AfterItem(req[r]))
    /\ UNCHANGED <<approvisionnements, orders, order_items, deliveries,
                   payments, transaction_logs, notifications, expected>>


(* variant 2, the second process_order handler: no role check, the order
   items all created first, then one updateMany per item, then a delivery
   whatever delivery_option is, and no payment *)

\* handler: schema (every request here satisfies it), no role check
StartOrderV2In(r, warehouses, itemLists, options, methods) ==
    /\ req[r].pc = "idle"
    /\ \E role \in Roles, w \in warehouses, its \in itemLists,
          d \in options, m \in methods :
          Set(r, [IdleReq EXCEPT !.op = "process_order", !.role = role, !.variant = 2,
                                 !.warehouse_id = w, !.items = its,
                                 !.delivery_option = d, !.payment_method = m,
                                 !.pc = "order_validate", !.i = 1])
    /\ StoreUnchanged

\* tx.order_items.create for item i, one after the other (Promise.all over
\* the one connection of the transaction)
OrderItemCreateV2(r) ==
    /\ req[r].pc = "order_item_v2"
    /\ LET item == req[r].items[req[r].i]
       IN Set(r, [req[r] EXCEPT
                    !.pc = IF req[r].i < Len(req[r].items)
                           THEN "order_item_v2" ELSE "order_update_many",
                    !.i = IF req[r].i < Len(req[r].items) THEN @ + 1 ELSE 1,
                    !.tx.order_items = Append(@,
                        [order_id |-> r, product_id |-> item.product_id,
                         quantity |-> item.quantity,
                         unit_price |-> item.unit_price])])
    /\ StoreUnchanged

\* tx.stocks.updateMany({where: {product_id, warehouse_id}, data: {quantity:
\* {decrement}}}) for item i: every entry of the pair is decremented
OrderUpdateMany(r) ==
    /\ req[r].pc = "order_update_many"
    /\ LET item == req[r].items[req[r].i]
           ids == {id \in 1..Len(stocks) :
                      /\ stocks[id].product_id = item.product_id
                      /\ stocks[id].warehouse_id = req[r].warehouse_id
                      /\ Visible(r, stocks[id])}
       IN /\ \A id \in ids : CanWrite(r, id)
          /\ stocks' = [id \in 1..Len(stocks) |->
                 IF id \in ids
                 THEN [stocks[id] EXCEPT
                          !.lock = r,
                          !.unc = [View(r, stocks[id]) EXCEPT
                                      !.quantity = @ - item.quantity]]
                 ELSE stocks[id]]
    /\ Set(r, IF req[r].i < Len(req[r].items)
              THEN [req[r] EXCEPT !.i = @ + 1]
              ELSE [req[r] EXCEPT !.pc = "order_delivery_v2"])
    /\ UNCHANGED <<approvisionnements, orders, order_items, deliveries,
                   payments, transaction_logs, notifications, expected>>

\* tx.deliveries.create, whatever delivery_option is
OrderDeliveryV2(r) ==
    /\ req[r].pc = "order_delivery_v2"
    /\ Set(r, [req[r] EXCEPT
                 !.pc = "order_commit",
                 !.tx.deliveries = Append(@,
                     [order_id |-> r, status |-> "assigned"])])
    /\ StoreUnchanged

\* tx.deliveries.create
OrderDelivery(r) ==
    /\ req[r].pc = "order_delivery"
    /\ Set(r, [req[r] EXCEPT
                 !.pc = "order_payment",
                 !.tx.deliveries = Append(@,
                     [order_id |-> r, status |-> "assigned"])])
    /\ StoreUnchanged

\* tx.payments.create
OrderPayment(r) ==
    /\ req[r].pc = "order_payment"
    /\ Set(r, [req[r] EXCEPT
                 !.pc = "order_status",
                 !.tx.payments = Append(@,
                     [order_id |-> r, approvisionnement_id |-> "none",
                      amount |-> req[r].totalAmount,
                      payment_method |-> req[r].payment_method,
                      status |-> IF req[r].payment_method = "direct"
                                 THEN "completed" ELSE "pending"])])
    /\ StoreUnchanged

\* tx.orders.update: status after the payment
OrderStatusUpdate(r) ==
    /\ req[r].pc = "order_status"
    /\ Set(r, [req[r] EXCEPT
                 !.pc = "order_commit",
                 !.tx.orders[1].status =
                     IF req[r].payment_method = "direct" THEN "paid"
                                                         ELSE "pending"])
    /\ StoreUnchanged

RECURSIVE Ordered(_, _)
\* the quantity of product p the items ask for
Ordered(items, p) ==
    IF items = <<>> THEN 0
    ELSE (IF Head(items).product_id = p THEN Head(items).quantity ELSE 0)
         + Ordered(Tail(items), p)

OrderDelta(rec) ==
    [k \in Keys |-> IF k[2] = rec.warehouse_id
                    THEN 0 - Ordered(rec.items, k[1]) ELSE 0]

\* the callback returns and the transaction commits
OrderCommit(r) ==
    /\ req[r].pc = "order_commit"
    /\ Commit(r, OrderDelta(req[r]))
    /\ Set(r, [req[r] EXCEPT !.pc = "order_log", !.committed = TRUE,
                            !.tx = EmptyTx])
    /\ UNCHANGED notifications

OrderLogEntry(r) ==
    [entity_type |-> "orders", entity_id |-> r, action |-> "CREATE",
     user_id |-> UserId(r),
     details |-> [action |-> "process_order",
                  total_amount |-> req[r].totalAmount,
                  items_count |-> Len(req[r].items),
                  delivery_option |-> req[r].delivery_option,
                  payment_method |-> req[r].payment_method]]

\* prisma.transaction_logs.create, after the commit
OrderLog(r) ==
    /\ req[r].pc = "order_log"
    /\ transaction_logs' = Append(transaction_logs, OrderLogEntry(r))
    /\ Set(r, [req[r] EXCEPT !.pc = "order_notify_client"])
    /\ UNCHANGED <<stocks, approvisionnements, orders, order_items, deliveries,
                   payments, notifications, expected>>

Notification(user, about, by) == [user_id |-> user, about |-> about, by |-> by]

\* prisma.notifications.create for the client
OrderNotifyClient(r) ==
    /\ req[r].pc = "order_notify_client"
    /\ notifications' = Append(notifications,
                               Notification(ClientId, "order_processed", r))
    /\ Set(r, [req[r] EXCEPT !.pc = "order_notify_staff"])
    /\ UNCHANGED <<stocks, approvisionnements, orders, order_items, deliveries,
                   payments, transaction_logs, expected>>

\* prisma.notifications.create for the warehouse staff, then 201
OrderNotifyStaff(r) ==
    /\ req[r].pc = "order_notify_staff"
    /\ notifications' = Append(notifications,
                               Notification("warehouse-staff-id", "new_order", r))
    /\ Set(r, Finish(req[r], Resp(201, "OK", "Order processed successfully")))
    /\ UNCHANGED <<stocks, approvisionnements, orders, order_items, deliveries,
                   payments, transaction_logs, expected>>

----------------------------------------------------------------------------
(* Approvisionnement workflow: handler *)

WorkflowActions == {"validate_bd", "reject_bd", "receive_stock", "reject_stock"}

BusinessDeveloperAllowed(role) == role = "business_developer" \/ role = "admin"

\* a role check that lets the business developer through as well
StockManagerAllowedLoose(role) ==
    role = "stock_manager" \/ role = "admin" \/ role = "business_developer"

StockManagerAllowed(role) == role = "stock_manager" \/ role = "admin"

\* handler: the request is parsed
StartWorkflowIn(r, actions) ==
    /\ req[r].pc = "idle"
    /\ \E role \in Roles, act \in actions, a \in Appros :
          Set(r, [IdleReq EXCEPT !.op = act, !.role = role,
                                 !.approvisionnement_id = a,
                                 !.pc = "workflow_find"])
    /\ StoreUnchanged

InvalidStatus == Resp(400, "INVALID_STATUS", "wrong status")

\* prisma.approvisionnements.findUnique, then the role check and the status
\* check of the handler the action selects
WorkflowFind(r) ==
    /\ req[r].pc = "workflow_find"
    /\ LET row == approvisionnements[req[r].approvisionnement_id]
           bd == req[r].op \in {"validate_bd", "reject_bd"}
           allowed == IF bd THEN BusinessDeveloperAllowed(req[r].role)
                            ELSE StockManagerAllowed(req[r].role)
           required == IF bd THEN "pending" ELSE "validated_bd"
       IN IF ~allowed
          THEN Set(r, Finish(req[r], Forbidden))
          ELSE IF row.status # required
          THEN Set(r, Finish(req[r], InvalidStatus))
          ELSE Set(r, [req[r] EXCEPT
                          !.pc = req[r].op \o "_update", !.role = "none",
                          !.approvisionnement =
                              [status |-> row.status,
                               stock_manager_id |-> row.stock_manager_id]])
    /\ StoreUnchanged

\* prisma.approvisionnements.update outside a transaction: waits for the row
\* lock, then writes the row
UpdateAppro(a, st, bd, sm) ==
    /\ approvisionnements[a].lock = 0
    /\ approvisionnements' =
           [approvisionnements EXCEPT
               ![a].status = st,
               ![a].business_developer_id = bd,
               ![a].stock_manager_id = sm,
               ![a].unc = [status |-> st, stock_manager_id |-> sm]]

ApproLogEntry(r, new) ==
    [entity_type |-> "approvisionnements",
     entity_id |-> req[r].approvisionnement_id,
     action |-> "UPDATE", user_id |-> UserId(r),
     details |-> [action |-> req[r].op,
                  previous_status |-> req[r].approvisionnement.status,
                  new_status |-> new]]

\* prisma.transaction_logs.create of a workflow handler
WorkflowLog(r, new) ==
    /\ req[r].pc = req[r].op \o "_log"
    /\ transaction_logs' = Append(transaction_logs, ApproLogEntry(r, new))
    /\ Set(r, [req[r] EXCEPT !.pc = req[r].op \o "_notify"])
    /\ UNCHANGED <<stocks, approvisionnements, orders, order_items, deliveries,
                   payments, notifications, expected>>

\* prisma.notifications.create of a workflow handler, then 200
WorkflowNotify(r, user) ==
    /\ req[r].pc = req[r].op \o "_notify"
    /\ notifications' = Append(notifications, Notification(user, req[r].op, r))
    /\ Set(r, Finish(req[r], Resp(200, "OK", req[r].op)))
    /\ UNCHANGED <<stocks, approvisionnements, orders, order_items, deliveries,
                   payments, transaction_logs, expected>>

----------------------------------------------------------------------------
(* handleBusinessDeveloperValidation *)

\* a validation that does not record who validated
ValidateBdUpdateKeepsActor(r) ==
    /\ req[r].pc = "validate_bd_update"
    /\ LET a == req[r].approvisionnement_id
       IN UpdateAppro(a, "validated_bd",
                      approvisionnements[a].business_developer_id,
                      approvisionnements[a].stock_manager_id)
    /\ Set(r, [req[r] EXCEPT !.pc = "validate_bd_log"])
    /\ UNCHANGED <<stocks, orders, order_items, deliveries, payments,
                   transaction_logs, notifications, expected>>

ValidateBdUpdate(r) ==
    /\ req[r].pc = "validate_bd_update"
    /\ LET a == req[r].approvisionnement_id
       IN UpdateAppro(a, "validated_bd", UserId(r),
                      approvisionnements[a].stock_manager_id)
    /\ Set(r, [req[r] EXCEPT !.pc = "validate_bd_log"])
    /\ UNCHANGED <<stocks, orders, order_items, deliveries, payments,
                   transaction_logs, notifications, expected>>

ValidateBdLog(r) == req[r].op = "validate_bd" /\ WorkflowLog(r, "validated_bd")

\* approvisionnement.stock_manager_id || 'stock-manager-id'
ValidateBdNotify(r) ==
    /\ req[r].op = "validate_bd"
    /\ WorkflowNotify(r,
          IF req[r].approvisionnement.stock_manager_id = "none"
          THEN "stock-manager-id"
          ELSE req[r].approvisionnement.stock_manager_id)

(* handleBusinessDeveloperRejection *)

RejectBdUpdate(r) ==
    /\ req[r].pc = "reject_bd_update"
    /\ LET a == req[r].approvisionnement_id
       IN UpdateAppro(a, "rejected", UserId(r),
                      approvisionnements[a].stock_manager_id)
    /\ Set(r, [req[r] EXCEPT !.pc = "reject_bd_log"])
    /\ UNCHANGED <<stocks, orders, order_items, deliveries, payments,
                   transaction_logs, notifications, expected>>

RejectBdLog(r) == req[r].op = "reject_bd" /\ WorkflowLog(r, "rejected")

RejectBdNotify(r) ==
    /\ req[r].op = "reject_bd"
    /\ WorkflowNotify(r, approvisionnements[req[r].approvisionnement_id].supplier_id)

(* handleStockRejection *)

RejectStockUpdate(r) ==
    /\ req[r].pc = "reject_stock_update"
    /\ LET a == req[r].approvisionnement_id
       IN UpdateAppro(a, "rejected",
                      approvisionnements[a].business_developer_id, UserId(r))
    /\ Set(r, [req[r] EXCEPT !.pc = "reject_stock_log"])
    /\ UNCHANGED <<stocks, orders, order_items, deliveries, payments,
                   transaction_logs, notifications, expected>>

RejectStockLog(r) == req[r].op = "reject_stock" /\ WorkflowLog(r, "rejected")

RejectStockNotify(r) ==
    /\ req[r].op = "reject_stock"
    /\ WorkflowNotify(r, approvisionnements[req[r].approvisionnement_id].supplier_id)

(* handleStockReceival *)

\* an update that takes the row lock and leaves the status as it is
ReceiveUpdateKeepsStatus(r) ==
    /\ req[r].pc = "receive_stock_update"
    /\ LET a == req[r].approvisionnement_id
       IN /\ approvisionnements[a].lock \in {0, r}
          /\ approvisionnements' =
                 [approvisionnements EXCEPT
                     ![a].lock = r,
                     ![a].unc = [status |-> approvisionnements[a].status,
                                 stock_manager_id |-> UserId(r)]]
    /\ Set(r, [req[r] EXCEPT !.pc = "receive_stock_find"])
    /\ UNCHANGED <<stocks, orders, order_items, deliveries, payments,
                   transaction_logs, notifications, expected>>

\* tx.approvisionnements.update: takes the row lock
ReceiveUpdate(r) ==
    /\ req[r].pc = "receive_stock_update"
    /\ LET a == req[r].approvisionnement_id
       IN /\ approvisionnements[a].lock \in {0, r}
          /\ approvisionnements' =
                 [approvisionnements EXCEPT
                     ![a].lock = r,
                     ![a].unc = [status |-> "received",
                                 stock_manager_id |-> UserId(r)]]
    /\ Set(r, [req[r] EXCEPT !.pc = "receive_stock_find"])
    /\ UNCHANGED <<stocks, orders, order_items, deliveries, payments,
                   transaction_logs, notifications, expected>>

\* tx.stocks.findFirst of the entry of the approvisionnement's pair
ReceiveFind(r) ==
    /\ req[r].pc = "receive_stock_find"
    /\ LET row == approvisionnements[req[r].approvisionnement_id]
           id == FindFirst(r, row.product_id, row.warehouse_id)
       IN Set(r, [req[r] EXCEPT
                    !.pc = "receive_stock_write",
                    !.existingStock = IF id = 0 THEN NoStock
                                                ELSE Snapshot(r, id)])
    /\ StoreUnchanged

\* an upsert that adds the quantity and leaves the unit price of an entry
\* found as it is
ReceiveStockWriteKeepsPrice(r) ==
    /\ req[r].pc = "receive_stock_write"
    /\ LET a == req[r].approvisionnement_id
           row == approvisionnements[a]
           id == req[r].existingStock.stock_id
       IN IF id # 0
          THEN /\ CanWrite(r, id)
               /\ stocks' = WriteRow(r, id,
                      [View(r, stocks[id]) EXCEPT
                          !.quantity = req[r].existingStock.quantity
                                         + row.quantity,
                          !.last_updated = @ + 1,
                          !.approvisionnement_id = a])
          ELSE stocks' = CreateRow(r, row.product_id, row.warehouse_id,
                   StockVal(row.quantity, row.proposed_price, 0, a))
    /\ Set(r, [req[r] EXCEPT !.pc = "receive_stock_payment"])
    /\ UNCHANGED <<approvisionnements, orders, order_items, deliveries,
                   payments, transaction_logs, notifications, expected>>

\* tx.stocks.update of the entry found, or tx.stocks.create
ReceiveStockWrite(r) ==
    /\ req[r].pc = "receive_stock_write"
    /\ LET a == req[r].approvisionnement_id
           row == approvisionnements[a]
           id == req[r].existingStock.stock_id
       IN IF id # 0
          THEN /\ CanWrite(r, id)
               /\ stocks' = WriteRow(r, id,
                      [View(r, stocks[id]) EXCEPT
                          !.quantity = req[r].existingStock.quantity
                                         + row.quantity,
                          !.unit_price = row.proposed_price,
                          !.last_updated = @ + 1,
                          !.approvisionnement_id = a])
          ELSE stocks' = CreateRow(r, row.product_id, row.warehouse_id,
                   StockVal(row.quantity, row.proposed_price, 0, a))
    /\ Set(r, [req[r] EXCEPT !.pc = "receive_stock_payment"])
    /\ UNCHANGED <<approvisionnements, orders, order_items, deliveries,
                   payments, transaction_logs, notifications, expected>>

\* tx.payments.create: the payment stub of the supplier
ReceivePayment(r) ==
    /\ req[r].pc = "receive_stock_payment"
    /\ LET a == req[r].approvisionnement_id
           row == approvisionnements[a]
       IN Set(r, [req[r] EXCEPT
                    !.pc = "receive_stock_commit",
                    !.tx.payments = Append(@,
                        [order_id |-> 0, approvisionnement_id |-> a,
                         amount |-> row.quantity * row.proposed_price,
                         payment_method |-> "direct",
                         status |-> "pending"])])
    /\ StoreUnchanged

ReceiveDelta(rec) ==
    LET row == approvisionnements[rec.approvisionnement_id]
    IN [k \in Keys |-> IF k = <<row.product_id, row.warehouse_id>>
                       THEN row.quantity ELSE 0]

\* the callback returns and the transaction commits
ReceiveCommit(r) ==
    /\ req[r].pc = "receive_stock_commit"
    /\ Commit(r, ReceiveDelta(req[r]))
    /\ Set(r, [req[r] EXCEPT !.pc = "receive_stock_log", !.committed = TRUE,
                            !.tx = EmptyTx])
    /\ UNCHANGED notifications

ReceiveLog(r) == req[r].op = "receive_stock" /\ WorkflowLog(r, "received")

ReceiveNotify(r) ==
    /\ req[r].op = "receive_stock"
    /\ WorkflowNotify(r, approvisionnements[req[r].approvisionnement_id].supplier_id)

----------------------------------------------------------------------------
(* A call to the store fails (connection lost, lock or transaction timeout,
   deadlock victim): the call throws *)

\* positions inside a prisma.$transaction callback
TxPcs ==
    {"adjust_find", "adjust_update", "adjust_log", "adjust_commit",
     "transfer_source", "transfer_dest", "transfer_dest_write",
     "transfer_source_write", "transfer_log", "transfer_commit",
     "order_validate", "order_create", "order_item", "order_stock_find",
     "order_stock_update", "order_delivery", "order_payment", "order_status",
     "order_commit", "order_item_v2", "order_update_many", "order_delivery_v2",
     "receive_stock_update", "receive_stock_find", "receive_stock_write",
     "receive_stock_payment", "receive_stock_commit"}

\* positions of a workflow handler outside a transaction
WorkflowPcs ==
    {"workflow_find"}
    \cup {act \o "_update" : act \in WorkflowActions \ {"receive_stock"}}
    \cup {act \o "_log" : act \in WorkflowActions}
    \cup {act \o "_notify" : act \in WorkflowActions}

\* positions of process_order and of transfer (variant 2) after the
\* transaction committed
AfterCommitPcs ==
    {"order_log", "order_notify_client", "order_notify_staff", "transfer_notify"}

\* what the catch of the operation answers for an error of the store
StoreError(rec) ==
    IF rec.op = "adjust"
    THEN Resp(500, "STOCK_ADJUSTMENT_FAILED", "store error")
    ELSE IF rec.op = "transfer"
    THEN Resp(500, TransferFailedCode(rec.variant), "store error")
    ELSE Resp(500, "INTERNAL_SERVER_ERROR", "store error")

\* inside the transaction: the callback throws, the transaction rolls back
TxFail(r) ==
    /\ req[r].pc \in TxPcs
    /\ Abort(r, StoreError(req[r]))

\* after the commit: the catch answers 500, the transaction stays committed
SideEffectFail(r) ==
    /\ req[r].pc \in AfterCommitPcs
    /\ Set(r, Finish(req[r], StoreError(req[r])))
    /\ StoreUnchanged

\* a workflow handler outside a transaction: the error is thrown again and the
\* handler's catch answers 500; what was written before stays
WorkflowFail(r) ==
    /\ req[r].pc \in WorkflowPcs
    /\ Set(r, Finish(req[r], StoreError(req[r])))
    /\ StoreUnchanged

----------------------------------------------------------------------------
(* createCrudHandler: the rate limiter *)

\* rateLimitMap.get(ip) of an ip the map has no record for
NoRecord == [present |-> FALSE, count |-> 0, resetTime |-> 0]

\* no request of the ip was admitted yet
NoWindow == [open |-> FALSE, start |-> 0, admitted |-> 0]

\* a test that ends the window at its reset time already
WindowOverEarly(record, t) == ~record.present \/ t >= record.resetTime

\* !record || now > record.resetTime
WindowOver(record, t) == ~record.present \/ t > record.resetTime

\* checkRateLimit(ip, limit, windowMs) at time t: the value returned and the
\* map it leaves
CheckRateLimit(map, ip, t, limit, windowMs) ==
    IF WindowOver(map[ip], t)
    THEN [allowed |-> TRUE,
          map |-> [map EXCEPT ![ip] = [present |-> TRUE, count |-> 1,
                                       resetTime |-> t + windowMs]]]
    ELSE IF map[ip].count >= limit
    THEN [allowed |-> FALSE, map |-> map]
    ELSE [allowed |-> TRUE, map |-> [map EXCEPT ![ip].count = @ + 1]]

\* the window an admitted request at time t falls in: the one open if t is
\* within windowMs of its start, else a new one that starts at t
WindowAfter(w, t, windowMs) ==
    IF w.open /\ t <= w.start + windowMs
    THEN [w EXCEPT !.admitted = @ + 1]
    ELSE [open |-> TRUE, start |-> t, admitted |-> 1]

\* a request reaches the handler createCrudHandler returns: clientIp
StartCrud(r) ==
    /\ req[r].pc \in {"idle", "done"}
    /\ \E ip \in Ips :
          req' = [req EXCEPT ![r] = [IdleReq EXCEPT !.op = "crud", !.ip = ip,
                                                    !.pc = "crud_rate_limit"]]
    /\ StoreUnchanged
    /\ UNCHANGED <<rateLimitMap, now, window>>

\* if (!checkRateLimit(clientIp)) return res.status(429)
CrudRateLimit(r) ==
    /\ req[r].pc = "crud_rate_limit"
    /\ LET ip == req[r].ip
           check == CheckRateLimit(rateLimitMap, ip, now, RateLimit, WindowMs)
       IN /\ rateLimitMap' = check.map
          /\ IF check.allowed
             THEN /\ req' = [req EXCEPT ![r].pc = "crud_serve"]
                  /\ window' = [window EXCEPT
                                   ![ip] = WindowAfter(@, now, WindowMs)]
             ELSE /\ req' = [req EXCEPT ![r] =
                                Finish(req[r], Resp(429, "RATE_LIMIT_EXCEEDED",
                                                    "Too many requests"))]
                  /\ UNCHANGED window
    /\ StoreUnchanged
    /\ UNCHANGED now

\* the rest of the handler: authorization and the operation on the model,
\* which do not read or write the rate limiter's map
CrudServe(r) ==
    /\ req[r].pc = "crud_serve"
    /\ \E status \in {200, 401} :
          req' = [req EXCEPT ![r] = Finish(req[r], Resp(status, "", ""))]
    /\ StoreUnchanged
    /\ UNCHANGED <<rateLimitMap, now, window>>

\* time passes
Tick ==
    /\ now < MaxNow
    /\ now' = now + 1
    /\ StoreUnchanged
    /\ UNCHANGED <<req, rateLimitMap, window>>

----------------------------------------------------------------------------
(* Opening state *)

InitStocks ==
    << StockRow("pA", "W1", StockVal(InitQty, 2, 0, "none")),
       StockRow("pB", "W1", StockVal(1, 3, 0, "none")) >>

\* the quantity of the first live entry of the pair, 0 when there is none
Quantity(p, w) ==
    IF FindFirst(0, p, w) = 0 THEN 0 ELSE Committed(FindFirst(0, p, w)).quantity

ApproRow(st, bd, p, w) ==
    [status |-> st, business_developer_id |-> bd, stock_manager_id |-> "none",
     product_id |-> p, warehouse_id |-> w, quantity |-> 1,
     proposed_price |-> 3, supplier_id |-> "supplier-1",
     lock |-> 0, unc |-> [status |-> st, stock_manager_id |-> "none"]]

InitTables ==
    /\ stocks = InitStocks
    /\ orders = <<>>
    /\ order_items = <<>>
    /\ deliveries = <<>>
    /\ payments = <<>>
    /\ transaction_logs = <<>>
    /\ notifications = <<>>
    /\ expected = [k \in Keys |-> Quantity(k[1], k[2])]
    /\ rateLimitMap = [ip \in Ips |-> NoRecord]
    /\ now = 0
    /\ window = [ip \in Ips |-> NoWindow]

----------------------------------------------------------------------------
(* Spec: concurrent adjust, transfer and process_order requests on the
   ledger entry of product pA in warehouse W1 *)

StartAdjust(r) == StartAdjustIn(r, {"pA"}, {"W1"}, {0 - 1, 1})

StartTransfer(r) == StartTransferIn(r, {"pA"}, Warehouses, Warehouses, {1, MaxQty})

StartOrder(r) ==
    StartOrderIn(r, {"W1"},
                 {<<Item("pA", 1, 2)>>, <<Item("pA", MaxQty, 2)>>,
                  <<Item("pB", 1, 3), Item("pA", 1, 2)>>},
                 BOOLEAN, {"direct"})

Init ==
    /\ InitTables
    /\ approvisionnements = [a \in Appros |-> ApproRow("pending", "none", "pA", "W1")]
    /\ req = [r \in Requests |-> IdleReq]

AdjustStep(r) ==
    \/ AdjustFind(r)
    \/ AdjustUpdate(r)
    \/ AdjustLog(r)
    \/ AdjustCommit(r)

TransferStep(r) ==
    \/ TransferSource(r)
    \/ TransferDest(r)
    \/ TransferDestWrite(r)
    \/ TransferSourceWrite(r)
    \/ TransferLog(r)
    \/ TransferCommit(r)

OrderStep(r) ==
    \/ OrderValidate(r)
    \/ OrderCreate(r)
    \/ OrderItemCreate(r)
    \/ OrderStockFind(r)
    \/ OrderStockUpdate(r)
    \/ OrderDelivery(r)
    \/ OrderPayment(r)
    \/ OrderStatusUpdate(r)
    \/ OrderCommit(r)
    \/ OrderLog(r)
    \/ OrderNotifyClient(r)
    \/ OrderNotifyStaff(r)
    \/ SideEffectFail(r)

Next ==
    \E r \in Requests :
        \/ StartAdjust(r)
        \/ StartTransfer(r)
        \/ StartOrder(r)
        \/ AdjustStep(r)
        \/ TransferStep(r)
        \/ OrderStep(r)
        \/ TxFail(r)

Spec == Init /\ [][Next]_vars

----------------------------------------------------------------------------
(* SpecWorkflow: concurrent workflow requests on one approvisionnement, which
   is pending or already validated by a business developer *)

StartWorkflow(r) == StartWorkflowIn(r, WorkflowActions)

InitApproRows ==
    {ApproRow("pending", "none", "pA", w) : w \in Warehouses}
    \cup {ApproRow("validated_bd", "u0", "pA", w) : w \in Warehouses}

InitWorkflow ==
    /\ InitTables
    /\ approvisionnements \in [Appros -> InitApproRows]
    /\ req = [r \in Requests |-> IdleReq]

WorkflowStep(r) ==
    \/ WorkflowFind(r)
    \/ ValidateBdUpdate(r)
    \/ ValidateBdLog(r)
    \/ ValidateBdNotify(r)
    \/ RejectBdUpdate(r)
    \/ RejectBdLog(r)
    \/ RejectBdNotify(r)
    \/ RejectStockUpdate(r)
    \/ RejectStockLog(r)
    \/ RejectStockNotify(r)
    \/ ReceiveUpdate(r)
    \/ ReceiveFind(r)
    \/ ReceiveStockWrite(r)
    \/ ReceivePayment(r)
    \/ ReceiveCommit(r)
    \/ ReceiveLog(r)
    \/ ReceiveNotify(r)
    \/ WorkflowFail(r)

NextWorkflow ==
    \E r \in Requests :
        \/ StartWorkflow(r)
        \/ WorkflowStep(r)
        \/ TxFail(r)

SpecWorkflow == InitWorkflow /\ [][NextWorkflow]_vars

----------------------------------------------------------------------------
(* SpecMixed: a receive_stock on an approvisionnement validated by a business
   developer, concurrent with adjust, transfer and process_order requests on
   the ledger entry it credits *)

StartReceive(r) == StartWorkflowIn(r, {"receive_stock"})

ReceiveStep(r) ==
    \/ WorkflowFind(r)
    \/ ReceiveUpdate(r)
    \/ ReceiveFind(r)
    \/ ReceiveStockWrite(r)
    \/ ReceivePayment(r)
    \/ ReceiveCommit(r)
    \/ ReceiveLog(r)
    \/ ReceiveNotify(r)

InitMixed ==
    /\ InitTables
    /\ approvisionnements =
           [a \in Appros |-> ApproRow("validated_bd", "u0", "pA", "W1")]
    /\ req = [r \in Requests |-> IdleReq]

NextMixed ==
    \E r \in Requests :
        \/ StartReceive(r)
        \/ StartAdjust(r)
        \/ StartTransfer(r)
        \/ StartOrder(r)
        \/ ReceiveStep(r)
        \/ AdjustStep(r)
        \/ TransferStep(r)
        \/ OrderStep(r)

SpecMixed == InitMixed /\ [][NextMixed]_vars

----------------------------------------------------------------------------
(* Sequential runs: request r starts when the requests before it are over *)

Turn(r, n) ==
    \A s \in 1..n : /\ s < r => req[s].pc = "done"
                    /\ s > r => req[s].pc = "idle"

(* SpecSeq: SeqLen workflow requests, one after the other *)

\* the approvisionnement is pending, as it is created
InitSeq ==
    /\ InitTables
    /\ approvisionnements \in
           [Appros -> {ApproRow("pending", "none", "pA", w) : w \in Warehouses}]
    /\ req = [r \in 1..SeqLen |-> IdleReq]

NextSeq ==
    \E r \in 1..SeqLen :
        \/ Turn(r, SeqLen) /\ StartWorkflow(r)
        \/ WorkflowStep(r)
        \/ TxFail(r)

SpecSeq == InitSeq /\ [][NextSeq]_vars

(* SpecLedger: LedgerRuns stock management and order requests, one after the
   other, over every input the handlers tell apart *)

LedgerRuns == 2

AdjustQuantities == {0 - (InitQty + 1), 0 - 1, 0, 1}

TransferQuantities == {0 - 1, 0, 1, MaxQty, InitQty + 1}

ItemLists ==
    {<<Item("pA", q, 2)>> : q \in 1..(InitQty + 1)}
    \cup {<<Item("pA", InitQty, 2), Item("pB", 2, 3)>>,
          <<Item("pB", 1, 3), Item("pA", 1, 2)>>,
          <<Item("pA", 1, 2), Item("pA", InitQty, 2)>>}

StartAdjustAny(r) == StartAdjustIn(r, Products, Warehouses, AdjustQuantities)

StartAdjustV2(r) == StartAdjustV2In(r, Products, Warehouses, AdjustQuantities)

StartTransferAny(r) ==
    StartTransferIn(r, Products, Warehouses, Warehouses, TransferQuantities)

StartTransferV2(r) ==
    StartTransferV2In(r, Products, Warehouses, Warehouses, TransferQuantities)

StartOrderAny(r) ==
    StartOrderIn(r, Warehouses, ItemLists, BOOLEAN, {"direct", "credit"})

StartOrderV2(r) ==
    StartOrderV2In(r, Warehouses, ItemLists, BOOLEAN, {"direct", "credit"})

OrderStepV2(r) ==
    \/ OrderItemCreateV2(r)
    \/ OrderUpdateMany(r)
    \/ OrderDeliveryV2(r)

InitLedger ==
    /\ InitTables
    /\ approvisionnements = [a \in Appros |-> ApproRow("pending", "none", "pA", "W1")]
    /\ req = [r \in 1..LedgerRuns |-> IdleReq]

NextLedger ==
    \E r \in 1..LedgerRuns :
        \/ Turn(r, LedgerRuns) /\ StartAdjustAny(r)
        \/ Turn(r, LedgerRuns) /\ StartAdjustV2(r)
        \/ Turn(r, LedgerRuns) /\ StartTransferAny(r)
        \/ Turn(r, LedgerRuns) /\ StartTransferV2(r)
        \/ Turn(r, LedgerRuns) /\ StartOrderAny(r)
        \/ Turn(r, LedgerRuns) /\ StartOrderV2(r)
        \/ OrderStepV2(r)
        \/ AdjustStep(r)
        \/ AdjustParse(r)
        \/ TransferStep(r)
        \/ TransferNotify(r)
        \/ OrderStep(r)
        \/ TxFail(r)

SpecLedger == InitLedger /\ [][NextLedger]_vars

(* SpecOrder: LedgerRuns process_order requests, one after the other *)

NextOrder ==
    \E r \in 1..LedgerRuns :
        \/ Turn(r, LedgerRuns) /\ StartOrderAny(r)
        \/ OrderStep(r)
        \/ TxFail(r)

SpecOrder == InitLedger /\ [][NextOrder]_vars

(* SpecAlert: LedgerRuns adjust and alert requests, one after the other *)

Thresholds == {0, 1, InitQty, InitQty + 1}

StartAlert(r) == StartAlertIn(r, Products, Thresholds)

AlertStep(r) ==
    \/ AlertFind(r)
    \/ AlertNotify(r)
    \/ AlertLog(r)
    \/ AlertFail(r)

(* SpecRate: requests to an endpoint made by createCrudHandler, from two
   client addresses, while time passes *)

\* the requests to the endpoint that are in flight together
CrudRequests == {1, 2}

NextRate ==
    \/ \E r \in CrudRequests :
          \/ StartCrud(r)
          \/ CrudRateLimit(r)
          \/ CrudServe(r)
    \/ Tick

SpecRate == Init /\ [][NextRate]_vars

NextAlert ==
    \E r \in 1..LedgerRuns :
        \/ Turn(r, LedgerRuns) /\ StartAdjustAny(r)
        \/ Turn(r, LedgerRuns) /\ StartAlert(r)
        \/ AdjustStep(r)
        \/ AlertStep(r)
        \/ TxFail(r)

SpecAlert == InitLedger /\ [][NextAlert]_vars

----------------------------------------------------------------------------
(* Properties *)

\* no request is running
Quiescent == \A r \in DOMAIN req : req[r].pc \in {"idle", "done"}

\* the committed ledger: the entries a reader outside any transaction sees
CommittedLedger ==
    [id \in Live |-> [product_id |-> stocks[id].product_id,
                      warehouse_id |-> stocks[id].warehouse_id,
                      entry |-> stocks[id].cur]]

\* the quantity product p has in warehouse w in the opening state
OpeningQuantity(p, w) ==
    LET hits == {i \in 1..Len(InitStocks) :
                    /\ InitStocks[i].product_id = p
                    /\ InitStocks[i].warehouse_id = w}
    IN IF hits = {} THEN 0
       ELSE InitStocks[CHOOSE i \in hits : TRUE].cur.quantity

\* the payment stubs of approvisionnement a
PaymentsOf(a) ==
    {i \in 1..Len(payments) : payments[i].approvisionnement_id = a}

\* request r was served to the end: its caller was allowed and no call to the
\* store failed
Served(r) ==
    /\ req[r].pc = "done"
    /\ req[r].resp.code # "INSUFFICIENT_PERMISSIONS"
    /\ req[r].resp.error # "store error"

\* C1 (Spec): in every interleaving of concurrent adjust, transfer and
\* process_order requests on the same ledger entry, every committed ledger
\* quantity is >= 0.
C1_LedgerNeverNegative == \A id \in Live : Committed(id).quantity >= 0

\* C2 (Spec): once every request has finished, each ledger quantity equals its
\* opening quantity plus the signed deltas of the requests that committed: no
\* committed delta is lost or overwritten.
C2_NoLostUpdate ==
    Quiescent => \A k \in Keys : Quantity(k[1], k[2]) = expected[k]

AllowedTransitions ==
    {<<"pending", "validated_bd">>, <<"pending", "rejected">>,
     <<"validated_bd", "received">>, <<"validated_bd", "rejected">>}

\* C3 (SpecWorkflow): in every interleaving of validate_bd, reject_bd,
\* receive_stock and reject_stock requests, the status of an approvisionnement
\* changes only along pending -> validated_bd, pending -> rejected,
\* validated_bd -> received, validated_bd -> rejected; rejected and received
\* never change again.
C3_StatusTransitions ==
    [][\A a \in Appros :
          approvisionnements'[a].status # approvisionnements[a].status
          => <<approvisionnements[a].status, approvisionnements'[a].status>>
                 \in AllowedTransitions]_vars

\* the sequential run validate_bd, receive_stock, receive_stock on the pending
\* approvisionnement, each request by an allowed caller and served to the end
SequentialReceiveRun ==
    /\ req[1].op = "validate_bd" /\ Served(1)
    /\ req[2].op = "receive_stock" /\ Served(2)
    /\ req[3].op = "receive_stock" /\ Served(3)

\* C4 (SpecSeq): in the sequential run validate_bd, receive_stock,
\* receive_stock on a pending approvisionnement the first two requests succeed
\* and the third fails with INVALID_STATUS; afterwards the ledger entry of the
\* approvisionnement's pair holds its opening quantity plus the
\* approvisionnement quantity, credited once, and exactly one payment stub
\* exists for the approvisionnement.
C4_SequentialReceive ==
    SequentialReceiveRun =>
        /\ req[1].resp.status = 200
        /\ req[2].resp.status = 200
        /\ req[3].resp.status = 400
        /\ req[3].resp.code = "INVALID_STATUS"
        /\ \A a \in Appros :
              LET row == approvisionnements[a]
              IN /\ row.status = "received"
                 /\ Quantity(row.product_id, row.warehouse_id)
                        = OpeningQuantity(row.product_id, row.warehouse_id)
                          + row.quantity
                 /\ Cardinality(PaymentsOf(a)) = 1

\* C4, the case: the run is over, the second receive_stock was refused
C4_Witness ==
    /\ SequentialReceiveRun
    /\ req[2].committed
    /\ req[3].resp.code = "INVALID_STATUS"
    /\ \E a \in Appros : PaymentsOf(a) # {}

\* C5 (SpecWorkflow): of the concurrent receive_stock requests on one
\* validated_bd approvisionnement at most one succeeds: at most one commits
\* its credit of the ledger and at most one payment stub is created.
C5_SingleReceive ==
    /\ \A a \in Appros : Cardinality(PaymentsOf(a)) <= 1
    /\ Cardinality({r \in DOMAIN req :
                       req[r].op = "receive_stock" /\ req[r].committed}) <= 1

\* positions of process_order inside its transaction
OrderTxPcs ==
    {"order_validate", "order_create", "order_item", "order_stock_find",
     "order_stock_update", "order_delivery", "order_payment", "order_status",
     "order_commit", "order_item_v2", "order_update_many", "order_delivery_v2"}

\* the items of request r the committed ledger cannot serve: no entry in the
\* warehouse, or less on hand than asked for
ShortItems(r) ==
    {j \in 1..Len(req[r].items) :
        \/ FindFirst(0, req[r].items[j].product_id, req[r].warehouse_id) = 0
        \/ Quantity(req[r].items[j].product_id, req[r].warehouse_id)
               < req[r].items[j].quantity}

\* the names under which the error can name the product of item j
NamesOf(item) ==
    {ProductName(item.product_id), "Product ID: " \o item.product_id}

\* nothing process_order creates or changes has changed
OrderTablesUnchanged ==
    /\ CommittedLedger' = CommittedLedger
    /\ UNCHANGED <<orders, order_items, deliveries, payments>>

\* C6 (SpecOrder): process_order checks every item before any mutation: when
\* an item has no ledger entry in the warehouse or less on hand than asked
\* for, the request goes no further than the check, ends with the
\* insufficient-stock error naming the product of such an item, and no ledger
\* quantity, order, order item, delivery or payment is created or changed.
C6_ValidationFailure ==
    [][\A r \in DOMAIN req :
          (/\ req[r].op = "process_order"
           /\ req[r].pc \in OrderTxPcs
           /\ ShortItems(r) # {})
          => /\ req[r].pc = "order_validate"
             /\ req'[r].pc \in {"order_validate", "done"}
             /\ OrderTablesUnchanged
             /\ (req'[r].pc = "done" /\ req'[r].resp.error # "store error")
                => /\ req'[r].resp.status >= 400
                   /\ req'[r].resp.error = "Insufficient stock for product"
                   /\ \E j \in ShortItems(r) :
                         req'[r].resp.product \in NamesOf(req[r].items[j])]_vars

\* C6, the case: an order whose first item the ledger can serve and whose
\* second it cannot was refused, naming the second, the ledger as it opened
C6_Witness ==
    \E r \in DOMAIN req :
        /\ req[r].op = "process_order"
        /\ req[r].pc = "done"
        /\ req[r].at = "order_validate"
        /\ req[r].resp.error = "Insufficient stock for product"
        /\ req[r].resp.product = ProductName("pB")
        /\ Quantity("pA", "W1") = InitQty
        /\ orders = <<>>

\* C7 (SpecOrder): while process_order is inside its transaction, and when a
\* step of it fails at any point, the store holds no order, order item,
\* delivery or payment of the request and every ledger quantity has the value
\* it had before the request; the failed request answers one error (500) and
\* no audit entry or notification is written for it.
C7_OrderAtomic ==
    [][\A r \in DOMAIN req :
          (/\ req[r].op = "process_order"
           /\ req[r].pc \in OrderTxPcs
           /\ ~(req[r].pc = "order_commit" /\ req'[r].pc = "order_log"))
          => /\ OrderTablesUnchanged
             /\ UNCHANGED <<transaction_logs, notifications>>
             /\ \A i \in 1..Len(orders') : orders'[i].order_id # r
             /\ \A i \in 1..Len(order_items') : order_items'[i].order_id # r
             /\ \A i \in 1..Len(deliveries') : deliveries'[i].order_id # r
             /\ \A i \in 1..Len(payments') : payments'[i].order_id # r
             /\ req'[r].pc = "done"
                => /\ req'[r].resp.status = 500
                   /\ ~req'[r].committed
                   /\ \A id \in 1..Len(stocks') : stocks'[id].lock # r]_vars

\* C7, the case: a process_order failed after its ledger decrement, delivery
\* or payment, and the ledger is as it opened
C7_Witness ==
    \E r \in DOMAIN req :
        /\ req[r].op = "process_order"
        /\ req[r].pc = "done"
        /\ req[r].at \in {"order_delivery", "order_payment", "order_status",
                          "order_commit"}
        /\ req[r].resp.status = 500
        /\ \A k \in Keys : Quantity(k[1], k[2]) = OpeningQuantity(k[1], k[2])
        /\ orders = <<>>

\* positions of receive_stock inside its transaction
ReceiveTxPcs ==
    {"receive_stock_update", "receive_stock_find", "receive_stock_write",
     "receive_stock_payment", "receive_stock_commit"}

\* C8 (SpecSeq): while receive_stock is inside its transaction, and when a step
\* of it fails (status update, ledger upsert or payment creation), the
\* approvisionnement is still validated_bd with the stock_manager_id it had,
\* the ledger is unchanged (the entry of its pair as it was, or absent), and
\* no payment stub exists for it.
C8_ReceiveAtomic ==
    [][\A r \in DOMAIN req, a \in Appros, p \in Products, w \in Warehouses :
          (/\ req[r].op = "receive_stock"
           /\ req[r].pc \in ReceiveTxPcs
           /\ ~(req[r].pc = "receive_stock_commit"
                /\ req'[r].pc = "receive_stock_log")
           /\ a = req[r].approvisionnement_id
           /\ p = approvisionnements[a].product_id
           /\ w = approvisionnements[a].warehouse_id)
          => /\ approvisionnements'[a].status = "validated_bd"
             /\ approvisionnements'[a].stock_manager_id
                    = req[r].approvisionnement.stock_manager_id
             /\ CommittedLedger' = CommittedLedger
             /\ Quantity(p, w)' = OpeningQuantity(p, w)
             /\ PaymentsOf(a)' = {}
             /\ req'[r].pc = "done"
                => /\ req'[r].resp.status = 500
                   /\ approvisionnements'[a].lock = 0
                   /\ \A id \in 1..Len(stocks') : stocks'[id].lock # r]_vars

\* C8, the case: a receive_stock failed after its ledger upsert or its payment
\* creation, and the approvisionnement is still validated_bd
C8_Witness ==
    \E r \in DOMAIN req, a \in Appros :
        /\ req[r].op = "receive_stock"
        /\ req[r].pc = "done"
        /\ req[r].at \in {"receive_stock_payment", "receive_stock_commit"}
        /\ req[r].resp.status = 500
        /\ approvisionnements[a].status = "validated_bd"
        /\ PaymentsOf(a) = {}

\* the last audit entry of the log after the step
NewAuditEntry == transaction_logs'[Len(transaction_logs')]

\* the step writes exactly one audit entry
OneAuditEntry == Len(transaction_logs') = Len(transaction_logs) + 1

\* request r, a transfer of product p from warehouse f to warehouse t, commits
\* in this step
TransferCommits(r, p, f, t) ==
    /\ req[r].op = "transfer"
    /\ req[r].pc = "transfer_commit"
    /\ req'[r].committed
    /\ p = req[r].product_id
    /\ f = req[r].from_warehouse_id
    /\ t = req[r].to_warehouse_id

\* the source entry is decremented and the destination entry incremented by
\* the quantity; a destination entry that did not exist is created with the
\* quantity and the unit_price of the source entry
TransferEffect(r, p, f, t) ==
    /\ Quantity(p, f)' = Quantity(p, f) - req[r].quantity
    /\ Quantity(p, t)' = Quantity(p, t) + req[r].quantity
    /\ FindFirst(0, p, t) = 0
       => /\ FindFirst(0, p, t)' # 0
          /\ stocks'[FindFirst(0, p, t)'].cur.quantity = req[r].quantity
          /\ stocks'[FindFirst(0, p, t)'].cur.unit_price
                 = Committed(FindFirst(0, p, f)).unit_price

\* the audit entry references both warehouse ids and the quantity moved
AuditByIds(r, f, t) ==
    /\ "from_warehouse_id" \in DOMAIN NewAuditEntry.details
    /\ NewAuditEntry.details.from_warehouse_id = f
    /\ "to_warehouse_id" \in DOMAIN NewAuditEntry.details
    /\ NewAuditEntry.details.to_warehouse_id = t
    /\ NewAuditEntry.details.quantity_transferred = req[r].quantity

\* C9 (SpecLedger): a successful transfer of quantity q of a product between
\* two different warehouses decrements the source entry by q and increments
\* the destination entry by q, creating it with quantity q and the unit_price
\* of the source entry when it does not exist, and writes exactly one audit
\* entry, which references both warehouse ids and the quantity moved.
C9_Transfer ==
    [][\A r \in DOMAIN req, p \in Products, f \in Warehouses, t \in Warehouses :
          (TransferCommits(r, p, f, t) /\ f # t)
          => /\ TransferEffect(r, p, f, t)
             /\ OneAuditEntry
             /\ AuditByIds(r, f, t)]_vars

\* request r, an adjustment of the entry of product p in warehouse w, ends in
\* this step, its caller allowed, the entry there and no call to the store
\* failing
AdjustEnds(r, p, w) ==
    /\ req[r].op = "adjust"
    /\ req[r].pc \notin {"idle", "done"}
    /\ req'[r].pc = "done"
    /\ req'[r].resp.error # "store error"
    /\ p = req[r].product_id
    /\ w = req[r].warehouse_id
    /\ FindFirst(0, p, w) # 0

\* the adjustment fails when the result would be negative and leaves the
\* ledger and the audit log as they are; else it sets the quantity to the
\* sum and writes one audit entry with the previous and the new quantity
AdjustEffect(r, p, w) ==
    IF Quantity(p, w) + req[r].quantity < 0
    THEN /\ req'[r].resp.status >= 400
         /\ CommittedLedger' = CommittedLedger
         /\ UNCHANGED transaction_logs
    ELSE /\ req'[r].resp.status = 200
         /\ Quantity(p, w)' = Quantity(p, w) + req[r].quantity
         /\ OneAuditEntry
         /\ NewAuditEntry.details.previous_quantity = Quantity(p, w)
         /\ NewAuditEntry.details.new_quantity
                = Quantity(p, w) + req[r].quantity

\* C10 (SpecLedger): an adjustment by delta of an entry with current quantity
\* + delta < 0 fails and leaves quantity, last_updated and the audit log
\* unchanged; with current quantity + delta >= 0 it sets the quantity to
\* current + delta and writes exactly one audit entry carrying the previous
\* and the new quantity.
C10_Adjust ==
    [][\A r \in DOMAIN req, p \in Products, w \in Warehouses :
          AdjustEnds(r, p, w) => AdjustEffect(r, p, w)]_vars

\* the notifications request r created as low-stock alerts
AlertNotifications(r) ==
    {i \in 1..Len(notifications) :
        /\ notifications[i].by = r
        /\ notifications[i].about = "low_stock_alert"}

\* the low-stock audit entries of the caller of request r
AlertAudits(r) ==
    {i \in 1..Len(transaction_logs) :
        /\ transaction_logs[i].user_id = UserId(r)
        /\ transaction_logs[i].details.action = "low_stock_alert"}

\* C11 (SpecAlert): an alert answers is_low_stock = (quantity <= threshold)
\* for the ledger entry it reads; when that is true it has created exactly one
\* notification, for the caller, and one audit entry, when it is false it has
\* created neither; no step of an alert changes a ledger quantity.
C11_Alert ==
    [][\A r \in DOMAIN req, p \in Products :
          (/\ req[r].op = "alert"
           /\ req[r].pc \in {"alert_find", "alert_notify", "alert_log"}
           /\ p = req[r].product_id)
          => /\ CommittedLedger' = CommittedLedger
             /\ (/\ req'[r].pc = "done"
                 /\ req'[r].resp.code # "ALERT_PROCESSING_FAILED"
                 /\ FindFirstOfProduct(p) # 0)
                => LET low == Committed(FindFirstOfProduct(p)).quantity
                                  <= req[r].threshold
                   IN /\ req'[r].resp.status = 200
                      /\ req'[r].resp.is_low_stock = low
                      /\ Cardinality(AlertNotifications(r))'
                             = IF low THEN 1 ELSE 0
                      /\ \A i \in AlertNotifications(r)' :
                            notifications'[i].user_id = UserId(r)
                      /\ Cardinality(AlertAudits(r))'
                             = IF low THEN 1 ELSE 0]_vars

\* C11, the case: one alert found the quantity at its threshold and notified,
\* another found it above its threshold and did not
C11_Witness ==
    \E r1 \in DOMAIN req, r2 \in DOMAIN req :
        /\ req[r1].op = "alert" /\ req[r1].resp.status = 200
        /\ req[r1].resp.is_low_stock
        /\ req[r2].op = "alert" /\ req[r2].resp.status = 200
        /\ ~req[r2].resp.is_low_stock
        /\ Cardinality(AlertNotifications(r1)) = 1
        /\ AlertNotifications(r2) = {}
        /\ Len(transaction_logs) = 1

\* C12 (Spec): in every reachable state there is at most one ledger entry per
\* (product_id, warehouse_id) pair, whatever the interleaving of the requests
\* that create the entry of a pair that had none.
C12_OneEntryPerPair ==
    \A i \in Live, j \in Live :
        (/\ stocks[i].product_id = stocks[j].product_id
         /\ stocks[i].warehouse_id = stocks[j].warehouse_id)
        => i = j

\* the audit entries written for request r
AuditsOf(r) ==
    {i \in 1..Len(transaction_logs) : transaction_logs[i].user_id = UserId(r)}

\* C13 (Spec): every committed change of a ledger quantity is made in the same
\* atomic unit as its audit entry: in no reachable state, also when the
\* request fails or stops right after its transaction commits, has the
\* transaction of a request committed its ledger change with no audit entry
\* for it in the log.
C13_AuditedChange ==
    \A r \in DOMAIN req :
        (req[r].committed /\ req[r].op \in {"adjust", "transfer", "process_order"})
        => AuditsOf(r) # {}

\* C14 (Spec): once the transaction of process_order has committed, a failure
\* of the audit-log append or of a notification creation that follows is
\* swallowed: the request reports success, and what it committed stays.
C14_SideEffectFailureSwallowed ==
    \A r \in DOMAIN req :
        (/\ req[r].op = "process_order"
         /\ req[r].pc = "done"
         /\ req[r].committed)
        => /\ req[r].resp.status \in {200, 201}
           /\ \E i \in 1..Len(orders) : orders[i].order_id = r

\* the roles the workflow lets run action act
WorkflowRoles(act) ==
    IF act \in {"validate_bd", "reject_bd"}
    THEN {"business_developer", "admin"}
    ELSE {"stock_manager", "admin"}

\* C15 (SpecSeq): validate_bd and reject_bd go on to change state only for a
\* caller whose role is business_developer or admin, receive_stock and
\* reject_stock only for stock_manager or admin; a call by any other role is
\* answered 403 and leaves status, actor ids, ledger, payments, audit log and
\* notifications unchanged, whatever the status of the approvisionnement.
C15_WorkflowRoles ==
    [][\A r \in DOMAIN req :
          (/\ req[r].pc = "workflow_find"
           /\ req'[r].pc # "workflow_find"
           /\ req[r].role \notin WorkflowRoles(req[r].op))
          => /\ req'[r].pc = "done"
             /\ req'[r].resp.status \in {403, 500}
             /\ req'[r].resp.status = 403
                => req'[r].resp.code = "INSUFFICIENT_PERMISSIONS"
             /\ req'[r].resp.status = 500 => req'[r].resp.error = "store error"
             /\ UNCHANGED <<stocks, approvisionnements, orders, order_items,
                            deliveries, payments, transaction_logs,
                            notifications>>]_vars

\* C15, the case: after a validate_bd, a receive_stock by a caller who is not
\* allowed was refused, and nothing was received
C15_Witness ==
    \E a \in Appros :
        /\ req[1].op = "validate_bd"
        /\ req[1].resp.status = 200
        /\ req[2].op = "receive_stock"
        /\ req[2].pc = "done"
        /\ req[2].resp.status = 403
        /\ approvisionnements[a].status = "validated_bd"
        /\ approvisionnements[a].stock_manager_id = "none"
        /\ PaymentsOf(a) = {}

\* the roles an operation on the ledger or on orders is for
PermittedRoles(op) ==
    IF op = "process_order" THEN {"client", "admin"}
                            ELSE {"stock_manager", "admin"}

\* the tables as a reader outside any transaction sees them
CommittedTables ==
    <<CommittedLedger, orders, order_items, deliveries, payments,
      transaction_logs, notifications>>

\* C16 (SpecLedger): process_order goes on only for a caller whose role is
\* client or admin, and adjust, transfer and alert only for stock_manager or
\* admin: no step of a request whose caller has another role changes the
\* orders, order items, deliveries, payments, ledger, audit log or
\* notifications.
C16_RolePermission ==
    [][\A r \in DOMAIN req :
          (/\ req[r].op \in {"process_order", "adjust", "transfer", "alert"}
           /\ req[r].pc \notin {"idle", "done"}
           /\ req[r].role \notin PermittedRoles(req[r].op)
           /\ req'[r] # req[r])
          => CommittedTables' = CommittedTables]_vars

\* the orders, payments, deliveries and order items request r created
OrdersBy(r) == {i \in 1..Len(orders) : orders[i].order_id = r}

OrderPaymentsOf(r) == {i \in 1..Len(payments) : payments[i].order_id = r}

DeliveriesOf(r) == {i \in 1..Len(deliveries) : deliveries[i].order_id = r}

OrderItemsOf(r) == {i \in 1..Len(order_items) : order_items[i].order_id = r}

\* process_order request r was answered 201
OrderSucceeded(r) ==
    /\ req[r].op = "process_order"
    /\ req[r].pc = "done"
    /\ req[r].resp.status = 201

\* C17 (SpecLedger): every process_order answered 201 has created exactly one
\* payment for its order; with payment_method direct the payment is completed
\* and the order is paid, with credit both are pending.
C17_OnePayment ==
    \A r \in DOMAIN req :
        OrderSucceeded(r)
        => /\ Cardinality(OrdersBy(r)) = 1
           /\ Cardinality(OrderPaymentsOf(r)) = 1
           /\ \A o \in OrdersBy(r), i \in OrderPaymentsOf(r) :
                 /\ payments[i].payment_method = orders[o].payment_method
                 /\ orders[o].payment_method = "direct"
                    => /\ payments[i].status = "completed"
                       /\ orders[o].status = "paid"
                 /\ orders[o].payment_method = "credit"
                    => /\ payments[i].status = "pending"
                       /\ orders[o].status = "pending"

\* C18 (SpecLedger): a process_order answered 201 has created a delivery for
\* its order exactly when delivery_option is true; there is then one delivery
\* for the order and its status is assigned.
C18_DeliveryIffOption ==
    \A r \in DOMAIN req :
        OrderSucceeded(r)
        => \A o \in OrdersBy(r) :
              /\ Cardinality(DeliveriesOf(r))
                     = (IF orders[o].delivery_option THEN 1 ELSE 0)
              /\ \A i \in DeliveriesOf(r) : deliveries[i].status = "assigned"

\* the sum over items 1..n of quantity x unit_price
RECURSIVE ItemsValue(_, _)
ItemsValue(items, n) ==
    IF n = 0 THEN 0
    ELSE items[n].quantity * items[n].unit_price + ItemsValue(items, n - 1)

\* the rows of table tbl that belong to order o, in the order of creation
RowsOfOrder(tbl, o) == SelectSeq(tbl, LAMBDA row : row.order_id = o)

\* the order items the request's items ask for
ItemRows(items, o) ==
    [n \in 1..Len(items) |-> [order_id |-> o,
                              product_id |-> items[n].product_id,
                              quantity |-> items[n].quantity,
                              unit_price |-> items[n].unit_price]]

SupplierPayment(a) ==
    [order_id |-> 0, approvisionnement_id |-> a,
     amount |-> approvisionnements[a].quantity
                  * approvisionnements[a].proposed_price,
     payment_method |-> "direct", status |-> "pending"]

\* C20 (SpecSeq): when the transaction of a receive_stock on approvisionnement
\* A commits, A is received with the caller as stock_manager_id; the ledger
\* entry of (A.product_id, A.warehouse_id) has its old quantity plus A.quantity
\* and A.proposed_price as unit_price if it existed, and is created with
\* A.quantity and A.proposed_price otherwise; every other entry is as it was;
\* and exactly one payment is created: for A, with no order, amount
\* A.quantity x A.proposed_price, method direct, status pending.
C20_ReceiveEffect ==
    [][\A r \in DOMAIN req, a \in Appros, p \in Products, w \in Warehouses :
          (/\ req[r].op = "receive_stock"
           /\ req[r].pc = "receive_stock_commit"
           /\ req'[r].pc = "receive_stock_log"
           /\ a = req[r].approvisionnement_id
           /\ p = approvisionnements[a].product_id
           /\ w = approvisionnements[a].warehouse_id)
          => /\ approvisionnements'[a].status = "received"
             /\ approvisionnements'[a].stock_manager_id = UserId(r)
             /\ FindFirst(0, p, w)' # 0
             /\ Quantity(p, w)' = Quantity(p, w) + approvisionnements[a].quantity
             /\ Committed(FindFirst(0, p, w))'.unit_price
                    = approvisionnements[a].proposed_price
             /\ FindFirst(0, p, w) # 0
                => /\ FindFirst(0, p, w)' = FindFirst(0, p, w)
                   /\ Live' = Live
             /\ FindFirst(0, p, w) = 0
                => Live' = Live \cup {FindFirst(0, p, w)'}
             /\ \A id \in Live :
                   id # FindFirst(0, p, w) => Committed(id)' = Committed(id)
             /\ payments' = Append(payments, SupplierPayment(a))]_vars

\* C20, the case: a receive_stock was answered 200 for an approvisionnement
\* whose pair had an entry; the entry holds the opening quantity plus the
\* received one at the proposed price, and the payment stub exists
C20_Witness ==
    \E r \in DOMAIN req, a \in Appros :
        /\ req[r].op = "receive_stock"
        /\ req[r].pc = "done"
        /\ req[r].resp.status = 200
        /\ approvisionnements[a].status = "received"
        /\ approvisionnements[a].warehouse_id = "W1"
        /\ Quantity("pA", "W1") = InitQty + approvisionnements[a].quantity
        /\ Committed(FindFirst(0, "pA", "W1")).unit_price
               = approvisionnements[a].proposed_price
        /\ Cardinality(PaymentsOf(a)) = 1

\* where request r is: its position, or the position it ended at
Position(r) == IF req[r].pc = "done" THEN req[r].at ELSE req[r].pc

\* workflow request r has written its status change (for receive_stock: its
\* transaction has committed)
Transitioned(r) ==
    /\ req[r].op \in WorkflowActions
    /\ Position(r) \in {req[r].op \o "_log", req[r].op \o "_notify"}

\* C21 (SpecWorkflow): once the workflow requests are over, every request that
\* changed the status of the approvisionnement has written exactly one audit
\* entry and every other request none, so the approvisionnement has as many
\* audit entries as status changes; and the previous status a request will
\* put in its audit entry is the status the approvisionnement has when the
\* request changes it.
C21_AuditPerTransition ==
    [][/\ Quiescent'
          => \A r \in DOMAIN req :
                req'[r].op \in WorkflowActions
                => Cardinality(AuditsOf(r))' = (IF Transitioned(r)' THEN 1 ELSE 0)
       /\ \A r \in DOMAIN req, a \in Appros :
             (/\ req[r].op \in WorkflowActions
              /\ req[r].pc = req[r].op \o "_update"
              /\ req'[r].pc \notin {req[r].pc, "done"}
              /\ a = req[r].approvisionnement_id)
             => req[r].approvisionnement.status = approvisionnements[a].status]_vars

\* transfer request r of quantity q of product p from warehouse f to warehouse
\* t is under way, has not committed, and must fail: the warehouses are the
\* same, the source has no entry, or the source entry holds less than q
TransferMustFail(r, p, f, t) ==
    /\ req[r].op = "transfer"
    /\ req[r].pc \notin {"idle", "done"}
    /\ ~req[r].committed
    /\ p = req[r].product_id
    /\ f = req[r].from_warehouse_id
    /\ t = req[r].to_warehouse_id
    /\ \/ f = t
       \/ FindFirst(0, p, f) = 0
       \/ Quantity(p, f) < req[r].quantity

\* C22 (SpecLedger): a transfer whose two warehouses are the same, whose
\* source has no entry, or whose source entry holds less than the quantity
\* asked for, ends in an error; no step of it changes a ledger entry, creates
\* a destination entry or writes an audit entry.
C22_TransferRefused ==
    [][\A r \in DOMAIN req, p \in Products, f \in Warehouses, t \in Warehouses :
          (TransferMustFail(r, p, f, t) /\ req'[r] # req[r])
          => /\ CommittedLedger' = CommittedLedger
             /\ Live' = Live
             /\ transaction_logs' = transaction_logs
             /\ req'[r].pc = "done" => req'[r].resp.status >= 400]_vars

\* the kind of an error response: what a client can branch on, the HTTP
\* status and the code; the message is free text
ErrorKind(resp) == <<resp.status, resp.code>>

\* C23 (SpecLedger): an adjust on a pair that has no ledger entry, when no
\* call to the store fails, ends in an error whose kind differs from the kind
\* answered for a failure of the store and from the kind answered for an
\* adjustment that would make the quantity negative; it creates no ledger
\* entry and writes no audit entry.
C23_AdjustNotFound ==
    [][\A r \in DOMAIN req, p \in Products, w \in Warehouses :
          (/\ req[r].op = "adjust"
           /\ req[r].variant = 1
           /\ req[r].pc = "adjust_find"
           /\ p = req[r].product_id
           /\ w = req[r].warehouse_id
           /\ FindFirst(0, p, w) = 0
           /\ req'[r].pc = "done"
           /\ req'[r].resp.error # "store error")
          => /\ req'[r].resp.status >= 400
             /\ ErrorKind(req'[r].resp) # ErrorKind(StoreError(req[r]))
             /\ ErrorKind(req'[r].resp)
                   # ErrorKind(AdjustFailed(
                        "Stock adjustment would result in negative quantity"))
             /\ CommittedLedger' = CommittedLedger
             /\ Live' = Live
             /\ transaction_logs' = transaction_logs]_vars

\* the ip's window is still running at the present time
InWindow(ip) == window[ip].open /\ now <= window[ip].start + WindowMs

\* C24 (SpecRate): for each client address the rate limiter admits at most
\* RateLimit requests in the window that starts at the first request it
\* admitted and lasts WindowMs; a request is answered 429 exactly when the
\* window is still running and RateLimit requests were admitted in it; the
\* first request after the window is admitted and the count restarts at 1;
\* the record of another address is not touched.
C24_RateLimit ==
    [][/\ \A ip \in Ips : window'[ip].admitted <= RateLimit
       /\ \A r \in DOMAIN req, ip \in Ips :
             (/\ req[r].pc = "crud_rate_limit"
              /\ req'[r].pc # "crud_rate_limit"
              /\ ip = req[r].ip)
             => /\ (req'[r].pc = "done" /\ req'[r].resp.status = 429)
                      <=> (InWindow(ip) /\ window[ip].admitted >= RateLimit)
                /\ req'[r].pc = "done" => rateLimitMap' = rateLimitMap
                /\ (req'[r].pc # "done" /\ ~InWindow(ip))
                      => rateLimitMap'[ip].count = 1
                /\ (req'[r].pc # "done" /\ InWindow(ip))
                      => rateLimitMap'[ip].count = rateLimitMap[ip].count + 1
                /\ \A other \in Ips \ {ip} :
                      rateLimitMap'[other] = rateLimitMap[other]]_vars

\* C24, the case: an address has used up a window that is not its first and
\* a request of it was answered 429, while the other address is still
\* admitted
C24_Witness ==
    \E r \in DOMAIN req, ip \in Ips, other \in Ips :
        /\ req[r].op = "crud"
        /\ req[r].pc = "done"
        /\ req[r].resp.status = 429
        /\ InWindow(ip)
        /\ window[ip].start > WindowMs
        /\ window[ip].admitted = RateLimit
        /\ other # ip
        /\ InWindow(other)
        /\ window[other].admitted < RateLimit

\* C25 (SpecOrder): a process_order that runs alone on a ledger without
\* negative quantities commits only if, for each product, the quantities its
\* items ask for add up to at most the quantity on hand in the warehouse, the
\* same product appearing in several items included; it leaves no ledger
\* quantity negative.
C25_OrderNeverNegative ==
    [][\A r \in DOMAIN req, w \in Warehouses :
          (/\ req[r].op = "process_order"
           /\ req[r].pc = "order_commit"
           /\ req'[r].committed
           /\ w = req[r].warehouse_id
           /\ \A id \in Live : Committed(id).quantity >= 0)
          => /\ \A p \in Products :
                   Ordered(req[r].items, p) <= Quantity(p, w)
             /\ \A id \in Live' : Committed(id)'.quantity >= 0]_vars

\* C26 (SpecLedger): a transfer that runs alone on a ledger without negative
\* quantities commits only with a positive quantity, and leaves neither the
\* source nor the destination entry, created or not, with a negative
\* quantity; a transfer of a non-positive quantity changes no ledger entry.
C26_TransferNeverNegative ==
    [][\A r \in DOMAIN req, p \in Products, f \in Warehouses, t \in Warehouses :
          (/\ TransferCommits(r, p, f, t)
           /\ \A id \in Live : Committed(id).quantity >= 0)
          => /\ req[r].quantity > 0
             /\ \A id \in Live' : Committed(id)'.quantity >= 0]_vars

\* the ledger entries whose committed version names approvisionnement a as
\* the origin of its last credit
CreditsOf(a) == {id \in Live : Committed(id).approvisionnement_id = a}

\* C27 (SpecWorkflow): in every reachable state, whatever the interleaving of
\* the workflow requests on an approvisionnement, a payment stub or a ledger
\* credit for it exists exactly when its status is received.
C27_CreditIffReceived ==
    \A a \in Appros :
        (PaymentsOf(a) # {} \/ CreditsOf(a) # {})
        <=> approvisionnements[a].status = "received"

\* a request of one of the operations ops has committed
SomeCommitted(ops) ==
    \E r \in DOMAIN req : req[r].op \in ops /\ req[r].committed

\* C28 (SpecMixed): when a receive_stock and a process_order, adjust or
\* transfer on the ledger entry it credits have both committed, in whatever
\* interleaving, both effects are in the ledger once the requests are over:
\* each quantity is the opening quantity plus the quantity of the
\* approvisionnement plus the delta the other request committed.
C28_ReceiveWithConcurrentChange ==
    (/\ Quiescent
     /\ SomeCommitted({"receive_stock"})
     /\ SomeCommitted({"process_order", "adjust", "transfer"}))
    => \A p \in Products, w \in Warehouses :
          Quantity(p, w) = expected[<<p, w>>]

\* the unit price of the first live entry of the pair, 0 when there is none
UnitPrice(p, w) ==
    IF FindFirst(0, p, w) = 0 THEN 0
    ELSE Committed(FindFirst(0, p, w)).unit_price

\* C29 (SpecLedger): a transfer that commits conserves stock: the quantities
\* of the product in the source and in the destination warehouse add up to
\* the same before and after; the unit_price of the source entry and of a
\* destination entry that existed, and every entry of another product or
\* another warehouse, are as they were.
C29_TransferConserves ==
    [][\A r \in DOMAIN req, p \in Products, f \in Warehouses, t \in Warehouses :
          TransferCommits(r, p, f, t)
          => /\ Quantity(p, f)' + Quantity(p, t)'
                   = Quantity(p, f) + Quantity(p, t)
             /\ UnitPrice(p, f)' = UnitPrice(p, f)
             /\ FindFirst(0, p, t) # 0 => UnitPrice(p, t)' = UnitPrice(p, t)
             /\ \A id \in Live :
                   (stocks[id].product_id # p
                    \/ stocks[id].warehouse_id \notin {f, t})
                   => /\ id \in Live'
                      /\ Committed(id)' = Committed(id)]_vars

\* the business developer who validated the approvisionnements that open a
\* run already validated
OpeningValidator == "u0"

\* C30 (SpecWorkflow): in every reachable state, whatever the interleaving of
\* the workflow requests, an approvisionnement that is received, or that has
\* a ledger credit or a payment stub, has its business_developer_id and its
\* stock_manager_id set, and a validate_bd changed its status before: in this
\* run, or before the run for an approvisionnement that opens it validated.
C30_ValidatedBeforeReceived ==
    \A a \in Appros :
        (\/ approvisionnements[a].status = "received"
         \/ CreditsOf(a) # {}
         \/ PaymentsOf(a) # {})
        => /\ approvisionnements[a].business_developer_id # "none"
           /\ approvisionnements[a].stock_manager_id # "none"
           /\ \/ approvisionnements[a].business_developer_id = OpeningValidator
              \/ \E r \in DOMAIN req :
                    req[r].op = "validate_bd" /\ Transitioned(r)

\* C30, the case: an approvisionnement that opened the run pending is
\* received after a validate_bd and a receive_stock of the run
C30_Witness ==
    \E a \in Appros, r \in DOMAIN req, s \in DOMAIN req :
        /\ approvisionnements[a].status = "received"
        /\ approvisionnements[a].business_developer_id = UserId(r)
        /\ req[r].op = "validate_bd"
        /\ Transitioned(r)
        /\ req[s].op = "receive_stock"
        /\ req[s].committed
        /\ approvisionnements[a].stock_manager_id = UserId(s)
        /\ CreditsOf(a) # {}

====
